---- MODULE Spec2Model ----
(***************************************************************************)
(* Model of the configuration-override parser and merge engine of          *)
(* dh/dh_template_gen/generate_request_template.py                         *)
(* (class DistroXRequestTemplateGenerator).                                *)
(*                                                                         *)
(* Python strings are TLA+ strings; a character is a string of length 1.   *)
(* Python values are tagged records [t |-> tag, v |-> payload] so that an  *)
(* integer 3 and the text "3" are different, comparable values.            *)
(* A Python dict is a function from key strings to values; a dict that     *)
(* can be aliased (the merger's records) lives in a heap of objects and is *)
(* named by its address.                                                   *)
(***************************************************************************)
EXTENDS Integers, Sequences, FiniteSets, TLC

VARIABLES
  mode,      \* which operation family this behaviour exercises
  input_parts, \* the pieces the input string was put together from
  arg,       \* input string of the parser under test
  groups,    \* result of parse_instance_groups_argument(arg), or NotCalled
  parsed,    \* result of _parse_cli_command(arg), or NotCalled
  heap,      \* address -> dict contents (the merger's objects)
  ovA, ovB,  \* the two override records of a merge scenario
  plan,      \* the order in which the scenario makes its merge calls
  volume_list,  \* result of parse_attached_volumes(arg), or NotCalled
  given_cluster_data,  \* the cluster description generate_request_template is given
  given_overrides,  \* the override records it is given, in their order
  self_cli_command_data,  \* self.cli_command_data: None, or what _parse_cli_command returned
  templates,  \* run label -> inputs and result of a generate_request_template call
  cost_data,  \* cost_data handed to analyze_costs (get_cost_usage.py line 977)
  cost_analysis,  \* what analyze_costs returned, NotCalled before the call
  calls      \* label -> record of a finished merge_instance_group_override call

vars == <<mode, input_parts, arg, groups, parsed, heap, ovA, ovB, plan, calls, volume_list, given_cluster_data, given_overrides, self_cli_command_data, templates, cost_data, cost_analysis>>

-----------------------------------------------------------------------------
(* Python values *)

\* Every value carries all five fields, so that two values of different Python
\* types are still comparable: t is the type, and the payload is in the field
\* that belongs to the type (s: text, n: number or address, q: list items,
\* f: dict entries).
Val(t, s, n, q, f) == [t |-> t, s |-> s, n |-> n, q |-> q, f |-> f]
VStr(s)   == Val("str", s, 0, << >>, << >>)
VInt(n)   == Val("int", "", n, << >>, << >>)
VList(q)  == Val("list", "", 0, q, << >>)
VDict(f)  == Val("dict", "", 0, << >>, f)
VRef(a)   == Val("ref", a, 0, << >>, << >>)
VNone     == Val("none", "", 0, << >>, << >>)
VBool(b)  == Val("bool", "", IF b THEN 1 ELSE 0, << >>, << >>)
Raised(e) == Val("raise", e, 0, << >>, << >>)
NotCalled == Val("notcalled", "", 0, << >>, << >>)

EmptyDict == << >>
SetItem(f, k, x) == (k :> x) @@ f

-----------------------------------------------------------------------------
(* str methods, as the code uses them *)

Ch(s, i) == SubSeq(s, i, i)

Whitespace == {" ", "\t", "\n", "\r", "\f"}

\* s[i:] and s[:j] with 0-based Python indices, 0 <= i, j <= len(s)
From(s, i) == SubSeq(s, i + 1, Len(s))
UpTo(s, j) == SubSeq(s, 1, j)
Slice(s, i, j) == SubSeq(s, i + 1, j)

StartsAt(s, sub, i) ==
  /\ i + Len(sub) <= Len(s)
  /\ SubSeq(s, i + 1, i + Len(sub)) = sub

\* the least member of a non-empty set of indices
Least(S) == CHOOSE i \in S : \A j \in S : i <= j

\* s.find(sub, start): the lowest 0-based index >= start where sub occurs, else -1
Find(s, sub, start) ==
  LET hits == {i \in start..(Len(s) - Len(sub)) : StartsAt(s, sub, i)} IN
  IF hits = {} THEN -1 ELSE Least(hits)

\* sub in s
Contains(s, sub) == Find(s, sub, 0) >= 0

StartsWith(s, sub) == StartsAt(s, sub, 0)
EndsWith(s, sub) == Len(sub) <= Len(s) /\ StartsAt(s, sub, Len(s) - Len(sub))

IsCharOf(c, chars) == \E i \in 1..Len(chars) : Ch(chars, i) = c

\* s without its longest prefix (suffix) of characters of cs
LStripSet(s, cs) ==
  LET keep == {i \in 1..Len(s) : Ch(s, i) \notin cs} IN
  IF keep = {} THEN "" ELSE SubSeq(s, Least(keep), Len(s))

RStripSet(s, cs) ==
  LET keep == {i \in 1..Len(s) : Ch(s, i) \notin cs} IN
  IF keep = {} THEN "" ELSE SubSeq(s, 1, CHOOSE i \in keep : \A j \in keep : j <= i)

CharSet(chars) == {Ch(chars, i) : i \in 1..Len(chars)}

\* s.strip(), s.strip(chars), s.lstrip(chars), s.rstrip(chars)
Strip(s) == RStripSet(LStripSet(s, Whitespace), Whitespace)
StripChars(s, chars) == RStripSet(LStripSet(s, CharSet(chars)), CharSet(chars))
LStripChars(s, chars) == LStripSet(s, CharSet(chars))
RStripChars(s, chars) == RStripSet(s, CharSet(chars))

\* s.split(sep): always at least one piece
RECURSIVE Split(_, _)
Split(s, sep) ==
  LET i == Find(s, sep, 0) IN
  IF i < 0 THEN <<s>>
  ELSE <<UpTo(s, i)>> \o Split(From(s, i + Len(sep)), sep)

\* s.split(sep, 1): one or two pieces
Split1(s, sep) ==
  LET i == Find(s, sep, 0) IN
  IF i < 0 THEN <<s>> ELSE <<UpTo(s, i), From(s, i + Len(sep))>>

\* s.replace(old, new)
RECURSIVE Replace(_, _, _)
Replace(s, old, new) ==
  LET i == Find(s, old, 0) IN
  IF i < 0 THEN s
  ELSE UpTo(s, i) \o new \o Replace(From(s, i + Len(old)), old, new)

\* the least index in i..len(s) that is len(s) or holds a character of stop
SkipTo(s, i, stop) ==
  Least({j \in i..Len(s) : j = Len(s) \/ Ch(s, j + 1) \in stop})

\* the index of the first character at or after i that is not whitespace
SkipSpace(s, i) ==
  Least({j \in i..Len(s) : j = Len(s) \/ Ch(s, j + 1) \notin Whitespace})

\* the index of the first whitespace character at or after i, or len(s)
SkipNonSpace(s, i) == SkipTo(s, i, Whitespace)

\* the index of the first '"' at or after i, or len(s)
SkipNonQuote(s, i) == IF i >= Len(s) THEN i ELSE SkipTo(s, i, {"\""})

-----------------------------------------------------------------------------
(* int(text): surrounding whitespace, an optional sign, decimal digits with *)
(* single underscores between digits; anything else raises ValueError.     *)

Digits == "0123456789"
IsDigit(c) == IsCharOf(c, Digits)
DigitVal(c) == (CHOOSE i \in 1..10 : Ch(Digits, i) = c) - 1

RECURSIVE DigitsValue(_, _)
DigitsValue(s, acc) ==
  IF Len(s) = 0 THEN acc
  ELSE IF Ch(s, 1) = "_" THEN DigitsValue(Tail(s), acc)
  ELSE DigitsValue(Tail(s), 10 * acc + DigitVal(Ch(s, 1)))

IsIntBody(s) ==
  /\ Len(s) > 0
  /\ \A i \in 1..Len(s) : IsDigit(Ch(s, i)) \/ Ch(s, i) = "_"
  /\ IsDigit(Ch(s, 1)) /\ IsDigit(Ch(s, Len(s)))
  /\ \A i \in 1..(Len(s) - 1) : ~(Ch(s, i) = "_" /\ Ch(s, i + 1) = "_")

\* [ok |-> the text is an integer literal, v |-> its value]
PyInt(text) ==
  LET s    == Strip(text)
      sgn  == IF Len(s) > 0 /\ Ch(s, 1) \in {"+", "-"} THEN Ch(s, 1) ELSE ""
      body == IF sgn = "" THEN s ELSE Tail(s)
  IN IF IsIntBody(body)
       THEN [ok |-> TRUE,
             v  |-> IF sgn = "-" THEN 0 - DigitsValue(body, 0) ELSE DigitsValue(body, 0)]
       ELSE [ok |-> FALSE, v |-> 0]

\* try: v = int(v) / except Exception: pass
TryInt(v) == IF PyInt(v).ok THEN VInt(PyInt(v).v) ELSE VStr(v)

-----------------------------------------------------------------------------
(* parse_instance_groups_argument and its inner parse_attached_volumes.    *)
(* A function that can raise returns Raised(e) in place of its value.      *)

IsRaised(x) == x.t = "raise"

\* `if "=" in pair` (lines 267, 334, 354): only such a pair is unpacked
HasEquals_always(pair) == TRUE
HasEquals(pair) == Contains(pair, "=")

\* k, v = pair.split("=", 1): unpacking anything but two pieces raises ValueError
Unpack2(pieces) ==
  IF Len(pieces) = 2 THEN [ok |-> TRUE, k |-> pieces[1], v |-> pieces[2]]
  ELSE [ok |-> FALSE, k |-> "", v |-> ""]

\* lines 272-276: volumeSize and volumeCount become integers when int() accepts them
VolumeValue_raw(k, v) == VStr(v)
VolumeValue(k, v) ==
  IF k \in {"volumeSize", "volumeCount"} THEN TryInt(v) ELSE VStr(v)

\* the loop of lines 266-277 over item.split(","), from dict d
RECURSIVE VolumePairs(_, _)
VolumePairs(pairs, d) ==
  IF Len(pairs) = 0 THEN VDict(d)
  ELSE LET pair == Head(pairs) IN
       IF HasEquals(pair)
         THEN LET kv == Unpack2(Split1(pair, "=")) IN
              IF ~kv.ok THEN Raised("ValueError")
              ELSE VolumePairs(Tail(pairs),
                     SetItem(d, Strip(kv.k), VolumeValue(Strip(kv.k), Strip(kv.v))))
         ELSE VolumePairs(Tail(pairs), d)

\* lines 280-286: CLI field names to template field names
VolumeKeyMap == [volumeSize |-> "size", volumeCount |-> "count", volumeType |-> "type"]

\* a mapping that keeps the keys it has no name for
MappedVolume_keep(d) ==
  LET name(k) == IF k \in DOMAIN VolumeKeyMap THEN VolumeKeyMap[k] ELSE k IN
  [m \in {name(k) : k \in DOMAIN d} |-> d[CHOOSE k \in DOMAIN d : name(k) = m]]

\* lines 279-286
MappedVolume(d) ==
  [m \in {VolumeKeyMap[k] : k \in DOMAIN d \cap DOMAIN VolumeKeyMap} |->
     d[CHOOSE k \in DOMAIN VolumeKeyMap : VolumeKeyMap[k] = m]]

\* the loop of lines 263-288 over the items
RECURSIVE VolumeItems(_, _)
VolumeItems(items, result) ==
  IF Len(items) = 0 THEN VList(result)
  ELSE LET item == StripChars(Head(items), "{}")
           d    == VolumePairs(Split(item, ","), EmptyDict)
       IN IF IsRaised(d) THEN d
          ELSE IF DOMAIN d.f # {} /\ DOMAIN MappedVolume(d.f) # {}
            THEN VolumeItems(Tail(items), Append(result, VDict(MappedVolume(d.f))))
            ELSE VolumeItems(Tail(items), result)

\* line 257: the value is worked on only when it is not empty and is bracketed
IsBracketed_open(val) == val # "" /\ StartsWith(val, "[")
IsBracketed(val) == val # "" /\ StartsWith(val, "[") /\ EndsWith(val, "]")

parse_attached_volumes(val) ==
  IF ~IsBracketed(val) THEN VList(<< >>)
  ELSE VolumeItems(Split(Slice(val, 1, Len(val) - 1), "},{"), << >>)

AVC == "attachedVolumeConfiguration="

\* lines 305-314: the 0-based index just after the ']' that brings the bracket
\* count back to zero, scanning from i; end_pos stays start_pos when none does
\* (the characters that are no bracket change nothing and are stepped over)
\* a value that ends at the next comma
BracketEnd_comma(group_str, from, bracket_count, start_pos) == SkipTo(group_str, from, {","})

RECURSIVE BracketEnd(_, _, _, _)
BracketEnd(group_str, from, bracket_count, start_pos) ==
  LET i == SkipTo(group_str, from, {"[", "]"}) IN
  IF i >= Len(group_str) THEN start_pos
  ELSE IF Ch(group_str, i + 1) = "["
    THEN BracketEnd(group_str, i + 1, bracket_count + 1, start_pos)
  ELSE IF bracket_count - 1 = 0 THEN i + 1
  ELSE BracketEnd(group_str, i + 1, bracket_count - 1, start_pos)

\* [x.strip() for x in v.split(",") if x.strip()]
RECURSIVE TrimmedNonEmpty(_)
TrimmedNonEmpty(pieces) ==
  IF Len(pieces) = 0 THEN << >>
  ELSE IF Strip(Head(pieces)) # ""
    THEN <<VStr(Strip(Head(pieces)))>> \o TrimmedNonEmpty(Tail(pieces))
    ELSE TrimmedNonEmpty(Tail(pieces))

\* lines 338-349: the value stored for key k in a group that has the volume field
GroupValueWithVolume_raw(k, v) ==
  IF k = "recipeNames" THEN VList(TrimmedNonEmpty(Split(v, ","))) ELSE VStr(v)
GroupValueWithVolume(k, v) ==
  IF k = "nodeCount" THEN TryInt(v)
  ELSE IF k = "rootVolumeSize" THEN TryInt(v)
  ELSE IF k = "recipeNames" THEN VList(TrimmedNonEmpty(Split(v, ",")))
  ELSE VStr(v)

\* lines 359-370: the same for a group without the volume field
GroupValuePlain(k, v) ==
  IF k = "nodeCount" THEN TryInt(v)
  ELSE IF k = "rootVolumeSize" THEN TryInt(v)
  ELSE IF k = "recipeNames" THEN VList(TrimmedNonEmpty(Split(v, ",")))
  ELSE VStr(v)

\* lines 332-350: the remaining parts of a group that has the volume field
RECURSIVE RemainingParts(_, _)
RemainingParts(parts, group) ==
  IF Len(parts) = 0 THEN VDict(group)
  ELSE LET part == Strip(Head(parts)) IN
       IF HasEquals(part) /\ part # ""
         THEN LET kv == Unpack2(Split1(part, "=")) IN
              IF ~kv.ok THEN Raised("ValueError")
              ELSE RemainingParts(Tail(parts),
                     SetItem(group, Strip(kv.k), GroupValueWithVolume(Strip(kv.k), Strip(kv.v))))
         ELSE RemainingParts(Tail(parts), group)

\* lines 353-371: the pairs of a group without the volume field
RECURSIVE PlainPairs(_, _)
PlainPairs(pairs, group) ==
  IF Len(pairs) = 0 THEN VDict(group)
  ELSE LET pair == Head(pairs) IN
       IF ~HasEquals(pair) THEN PlainPairs(Tail(pairs), group)
       ELSE LET kv == Unpack2(Split1(pair, "=")) IN
            IF ~kv.ok THEN Raised("ValueError")
            ELSE PlainPairs(Tail(pairs),
                   SetItem(group, Strip(kv.k), GroupValuePlain(Strip(kv.k), Strip(kv.v))))

\* lines 300-350: one group that contains "attachedVolumeConfiguration="
GroupWithVolume(group_str) ==
  LET start_pos     == Find(group_str, AVC, 0) + Len(AVC)
      end_pos       == BracketEnd(group_str, start_pos, 0, start_pos)
      volume_config_str == Slice(group_str, start_pos, end_pos)
      before_volume == UpTo(group_str, start_pos - Len(AVC))
      after_volume  == From(group_str, end_pos)
      volumes       == parse_attached_volumes(volume_config_str)
      remaining_parts ==
        (IF Strip(before_volume) # "" THEN Split(RStripChars(before_volume, ","), ",") ELSE << >>)
        \o (IF Strip(after_volume) # "" THEN Split(LStripChars(after_volume, ","), ",") ELSE << >>)
  IN IF IsRaised(volumes) THEN volumes
     ELSE RemainingParts(remaining_parts,
            SetItem(EmptyDict, "attachedVolumeConfiguration", volumes))

\* lines 296-373: one group string to one record
ParseGroup(group_str) ==
  IF Contains(group_str, AVC) THEN GroupWithVolume(group_str)
  ELSE PlainPairs(Split(group_str, ","), EmptyDict)

\* line 373: groups.append(group), whatever the record holds
EmitGroup_named(result, group) ==
  IF "instanceGroupName" \in DOMAIN group.f THEN Append(result, group) ELSE result
EmitGroup(result, group) == Append(result, group)

\* the loop of lines 293-373
RECURSIVE ParseGroups(_, _)
ParseGroups(strs, result) ==
  IF Len(strs) = 0 THEN VList(result)
  ELSE IF Strip(Head(strs)) = "" THEN ParseGroups(Tail(strs), result)
  ELSE LET group == ParseGroup(Head(strs)) IN
       IF IsRaised(group) THEN group
       ELSE ParseGroups(Tail(strs), EmitGroup(result, group))

parse_instance_groups_argument(instance_groups_arg) ==
  ParseGroups(Split(Strip(instance_groups_arg), " "), << >>)

-----------------------------------------------------------------------------
(* _parse_cli_command and _parse_instance_groups_string *)

NoMatch == [ok |-> FALSE, g |-> ""]

\* a search that looks at the first occurrence of the flag only
SearchFlagToken_first(s, flag, from) ==
  LET i == Find(s, flag, from)
      j == i + Len(flag)
      k == SkipSpace(s, j)
  IN IF i >= 0 /\ k > j /\ k < Len(s)
       THEN [ok |-> TRUE, g |-> Slice(s, k, SkipNonSpace(s, k))]
       ELSE NoMatch

\* re.search(flag + r'\s+(\S+)', s) from index `from`: group(1) of the leftmost match
RECURSIVE SearchFlagToken(_, _, _)
SearchFlagToken(s, flag, from) ==
  LET i == Find(s, flag, from)
      j == i + Len(flag)
      k == SkipSpace(s, j)
  IN IF i < 0 THEN NoMatch
     ELSE IF k > j /\ k < Len(s) THEN [ok |-> TRUE, g |-> Slice(s, k, SkipNonSpace(s, k))]
     ELSE SearchFlagToken(s, flag, i + 1)

\* the lookahead (?=\s+--|\s*$) at index e
RegionEndsAt(s, e) ==
  \* both alternatives start with whitespace or stand at the end
  /\ e = Len(s) \/ Ch(s, e + 1) \in Whitespace
  /\ LET k == SkipSpace(s, e) IN
     \/ k > e /\ StartsAt(s, "--", k)
     \/ k = Len(s)

\* (.+?): the least end e at or after `from` at which the lookahead holds
LazyEnd(s, from) == Least({e \in from..Len(s) : RegionEndsAt(s, e)})

\* re.search(r'--instance-groups\s+(.+?)(?=\s+--|\s*$)', s, re.DOTALL) from `from`
RECURSIVE SearchInstanceGroups(_, _)
SearchInstanceGroups(s, from) ==
  LET i == Find(s, "--instance-groups", from)
      j == i + Len("--instance-groups")
      k == SkipSpace(s, j)
  IN IF i < 0 THEN NoMatch
     ELSE IF k > j /\ k < Len(s) THEN [ok |-> TRUE, g |-> Slice(s, k, LazyEnd(s, k + 1))]
     \* the whitespace runs to the end: \s+ gives its last character to (.+?)
     ELSE IF k = Len(s) /\ k - j >= 2 THEN [ok |-> TRUE, g |-> Slice(s, k - 1, k)]
     ELSE SearchInstanceGroups(s, i + 1)

\* re.findall(r'key="([^"]+)",value="([^"]+)"', s) from index i, folded into tags
RECURSIVE TagPairs(_, _, _)
TagPairs(s, from, tags) ==
  LET i  == Find(s, "key=\"", from)
      k1 == i + Len("key=\"")
      k2 == SkipNonQuote(s, k1)
      v1 == k2 + Len("\",value=\"")
      v2 == SkipNonQuote(s, v1)
  IN IF i < 0 THEN tags
     ELSE IF /\ k2 > k1
             /\ StartsAt(s, "\",value=\"", k2)
             /\ v2 > v1
             /\ v2 < Len(s)
       THEN TagPairs(s, v2 + 1, SetItem(tags, Slice(s, k1, k2), VStr(Slice(s, v1, v2))))
       ELSE TagPairs(s, i + 1, tags)

\* a test that takes any key/value text for the marker
HasTagsMarker_pairs(cli_command) == Contains(cli_command, "key=\"")
\* line 154: `if '--tags' in cli_command`
HasTagsMarker(cli_command) == Contains(cli_command, "--tags")

\* a region matched as it stands
NormalizeQuotes_asis(tags_str) == tags_str
\* line 167: tags_str.replace('""', '"')
NormalizeQuotes(tags_str) == Replace(tags_str, "\"\"", "\"")

\* a region that runs to the end of the string
NextDash_none(cli_command, start_pos) == -1
\* line 160: next_dash = cli_command.find('--', start_pos)
NextDash(cli_command, start_pos) == Find(cli_command, "--", start_pos)

\* lines 154-175
ParseTags(cli_command) ==
  IF HasTagsMarker(cli_command)
    THEN LET start_pos == Find(cli_command, "--tags", 0) + Len("--tags")
             next_dash == NextDash(cli_command, start_pos)
             tags_str  == IF next_dash > 0
                            THEN Strip(Slice(cli_command, start_pos, next_dash))
                            ELSE Strip(From(cli_command, start_pos))
             normalized_tags_str == NormalizeQuotes(tags_str)
         IN TagPairs(normalized_tags_str, 0, EmptyDict)
    ELSE EmptyDict

\* a test for the toggle's name with or without its prefix
ParseToggle_loose(cli_command, positive, negative) ==
  Contains(cli_command, From(positive, 2))
\* a test of the positive marker first
ParseToggle_positive(cli_command, positive, negative) ==
  IF Contains(cli_command, positive) THEN TRUE
  ELSE FALSE
\* lines 181-189: the negative marker is tested first
ParseToggle(cli_command, positive, negative) ==
  IF Contains(cli_command, negative) THEN FALSE
  ELSE IF Contains(cli_command, positive) THEN TRUE
  ELSE FALSE

\* line 452: group_config[key] = value, the raw text
GroupConfigValue_coerced(key, value) == GroupValuePlain(Strip(key), Strip(value))
GroupConfigValue(key, value) == VStr(value)

\* lines 449-453: every pair with '=' is stored, nothing trimmed or coerced
RECURSIVE GroupConfig(_, _)
GroupConfig(pairs, group_config) ==
  IF Len(pairs) = 0 THEN VDict(group_config)
  ELSE LET pair == Head(pairs) IN
       IF Contains(pair, "=")
         THEN LET kv == Unpack2(Split1(pair, "=")) IN
              IF ~kv.ok THEN Raised("ValueError")
              ELSE GroupConfig(Tail(pairs), SetItem(group_config, kv.k, GroupConfigValue(kv.k, kv.v)))
         ELSE GroupConfig(Tail(pairs), group_config)

\* line 455: group_config.get('instanceGroupName', 'unknown')
GroupName(group_config) ==
  IF "instanceGroupName" \in DOMAIN group_config
    THEN group_config["instanceGroupName"].s ELSE "unknown"

\* the loop of lines 440-457
RECURSIVE GroupDefinitions(_, _)
GroupDefinitions(defs, instance_groups) ==
  IF Len(defs) = 0 THEN VDict(instance_groups)
  ELSE IF Strip(Head(defs)) = "" THEN GroupDefinitions(Tail(defs), instance_groups)
  ELSE LET group_config == GroupConfig(Split(Head(defs), ","), EmptyDict) IN
       IF IsRaised(group_config) THEN group_config
       ELSE GroupDefinitions(Tail(defs),
              SetItem(instance_groups, GroupName(group_config.f), group_config))

_parse_instance_groups_string(instance_groups_str) ==
  GroupDefinitions(Split(instance_groups_str, " "), EmptyDict)

\* lines 195-201: the text handed to _parse_instance_groups_string, when any
InstanceGroupsRegion(cli_command) ==
  LET m == SearchInstanceGroups(cli_command, 0) IN
  IF m.ok THEN [ok |-> TRUE, g |-> Strip(m.g)] ELSE NoMatch

ParseInstanceGroupsOverride(cli_command) ==
  LET region == InstanceGroupsRegion(cli_command) IN
  IF region.ok THEN _parse_instance_groups_string(region.g) ELSE VDict(EmptyDict)

_parse_cli_command(cli_command) ==
  LET subnet_match == SearchFlagToken(cli_command, "--subnet-id", 0)
      db_match     == SearchFlagToken(cli_command, "--datahub-database", 0)
      override     == ParseInstanceGroupsOverride(cli_command)
  IN IF IsRaised(override) THEN override
     ELSE VDict([tags |-> VDict(ParseTags(cli_command)),
                 subnet_id |-> IF subnet_match.ok THEN VStr(subnet_match.g) ELSE VNone,
                 multi_az |-> VBool(ParseToggle(cli_command, "--multi-az", "--no-multi-az")),
                 enable_load_balancer |->
                   VBool(ParseToggle(cli_command, "--enable-load-balancer",
                                     "--no-enable-load-balancer")),
                 datahub_database |-> IF db_match.ok THEN VStr(db_match.g) ELSE VStr("NONE"),
                 instance_groups_override |-> override])

-----------------------------------------------------------------------------
(* merge_instance_group_override.  The records it works on are objects of  *)
(* the heap: heap[a] is the contents of the dict at address a, and a dict  *)
(* held inside another one is held as VRef(address).  Lists and scalars    *)
(* are never modified in place by the merger and are held as values.       *)

\* lines 392-401; a plain string destination is a path of length one
key_map ==
  [instanceGroupName |-> <<"name">>,
   nodeCount |-> <<"nodeCount">>,
   instanceGroupType |-> <<"type">>,
   instanceType |-> <<"template", "instanceType">>,
   attachedVolumeConfiguration |-> <<"template", "attachedVolumes">>,
   rootVolumeSize |-> <<"template", "rootVolume", "size">>,
   recipeNames |-> <<"recipeNames">>,
   recoveryMode |-> <<"recoveryMode">>]

\* an address no object has yet
RECURSIVE FreshAddr(_, _)
FreshAddr(h, a) == IF a \in DOMAIN h THEN FreshAddr(h, a \o "'") ELSE a

\* a copy of the entries the mapping has a top-level destination for
ShallowCopy_mapped(h, a, m) ==
  SetItem(h, m, [k \in DOMAIN h[a] \cap {key_map[x][1] : x \in DOMAIN key_map} |-> h[a][k]])

\* line 387: merged = template_group.copy(), a new dict with the same entries
ShallowCopy(h, a, m) == SetItem(h, m, h[a])

\* tests that replace every intermediate, or only a missing one
NeedsNewMapping_always(h, d, key) == TRUE
NeedsNewMapping_missing(h, d, key) == key \notin DOMAIN h[d]
\* line 415: `key not in d or not isinstance(d[key], dict)`
NeedsNewMapping(h, d, key) == key \notin DOMAIN h[d] \/ h[d][key].t # "ref"

\* lines 413-419: walk the path from dict d, then set the leaf.  Indexing a
\* value that is not a dict raises TypeError.
RECURSIVE SetNested(_, _, _, _)
SetNested(h, d, path, v) ==
  IF Len(path) = 1 THEN [h |-> SetItem(h, d, SetItem(h[d], path[1], v)), raised |-> FALSE]
  ELSE LET key == Head(path) IN
       IF NeedsNewMapping(h, d, key)
         THEN LET n  == FreshAddr(h, d \o "." \o key)
                  h1 == SetItem(SetItem(h, n, EmptyDict), d, SetItem(h[d], key, VRef(n)))
              IN SetNested(h1, n, Tail(path), v)
         ELSE IF h[d][key].t = "ref" THEN SetNested(h, h[d][key].s, Tail(path), v)
         ELSE [h |-> h, raised |-> TRUE]

\* line 419 for the volume list: the leaf is replaced by the override's list
LeafValue_extend(old, v) ==
  IF old.t = "list" /\ v.t = "list" THEN VList(old.q \o v.q) ELSE v
LeafValue(old, v) == v

\* the value now at the end of path from dict d, VNone when there is none
RECURSIVE GetPath(_, _, _)
GetPath(h, d, path) ==
  IF Head(path) \notin DOMAIN h[d] THEN VNone
  ELSE IF Len(path) = 1 THEN h[d][path[1]]
  ELSE IF h[d][Head(path)].t = "ref" THEN GetPath(h, h[d][Head(path)].s, Tail(path))
  ELSE VNone

\* line 410: merged[mapped] = v
TopValue_extend(old, v) ==
  IF old.t = "list" /\ v.t = "list" THEN VList(old.q \o v.q) ELSE v
TopValue(old, v) == v

\* lines 404-406: a key that key_map does not have is skipped
UnknownKey_stored(h, m, k, v) == SetItem(h, m, SetItem(h[m], k, v))
UnknownKey(h, m, k, v) == h

\* lines 404-419: one iteration of the loop over override_group.items()
ApplyOverrideKey(h, m, k, v) ==
  IF k \notin DOMAIN key_map THEN [h |-> UnknownKey(h, m, k, v), raised |-> FALSE]
  ELSE LET mapped == key_map[k] IN
       IF Len(mapped) = 1
         THEN [h |-> SetItem(h, m, SetItem(h[m], mapped[1],
                                           TopValue(GetPath(h, m, mapped), v))),
               raised |-> FALSE]
         ELSE SetNested(h, m, mapped, LeafValue(GetPath(h, m, mapped), v))

\* the loop of line 403, the override's keys taken in the order `order`
RECURSIVE ApplyOverride(_, _, _, _)
ApplyOverride(h, m, override_group, order) ==
  IF Len(order) = 0 THEN [h |-> h, raised |-> FALSE]
  ELSE LET step == ApplyOverrideKey(h, m, Head(order), override_group[Head(order)]) IN
       IF step.raised THEN step
       ELSE ApplyOverride(step.h, m, override_group, Tail(order))

\* merge_instance_group_override(template_group, override_group): the merged
\* record is the new object at address m
merge_instance_group_override(h, m, template_group, override_group, order) ==
  LET done == ApplyOverride(ShallowCopy(h, template_group, m), m, override_group, order) IN
  [h |-> done.h, res |-> IF done.raised THEN Raised("TypeError") ELSE VRef(m)]

\* the value of a heap cell with every reference followed (== of Python)
RECURSIVE Deref(_, _)
Deref(h, x) ==
  IF x.t = "ref" THEN VDict([k \in DOMAIN h[x.s] |-> Deref(h, h[x.s][k])]) ELSE x

\* the addresses of the dicts reachable from address a, a included
RECURSIVE Reach(_, _)
Reach(h, a) ==
  {a} \cup UNION {Reach(h, h[a][k].s) : k \in {k \in DOMAIN h[a] : h[a][k].t = "ref"}}

-----------------------------------------------------------------------------
(* extract_instance_group_details and the instance-group part of           *)
(* generate_request_template.  A dict of the cluster description or of the *)
(* command-file data is a value; the group records the generator builds    *)
(* are heap objects, as the merger works on them.                          *)

\* d.get(k, default) of a dict value
Get(d, k, default) == IF k \in DOMAIN d.f THEN d.f[k] ELSE default

\* bool(x)
Truthy(x) ==
  CASE x.t = "str" -> x.s # ""
    [] x.t = "int" -> x.n # 0
    [] x.t = "bool" -> x.n # 0
    [] x.t = "list" -> Len(x.q) > 0
    [] x.t = "dict" -> DOMAIN x.f # {}
    [] OTHER -> FALSE

\* lines 473-474
FirstInstance(group) ==
  LET instances == Get(group, "instances", VList(<< >>)) IN
  IF Truthy(instances) THEN instances.q[1] ELSE VDict(EmptyDict)

\* lines 482-492: one described volume, gp2 turned into gp3
ExtractedVolume(volume) ==
  LET volume_type == Get(volume, "volumeType", VStr("gp3")) IN
  VDict([size |-> Get(volume, "size", VInt(256)),
         count |-> Get(volume, "count", VInt(1)),
         type |-> IF volume_type = VStr("gp2") THEN VStr("gp3") ELSE volume_type])

\* lines 477-498
AttachedVolumes(first_instance) ==
  LET raw_volumes == Get(first_instance, "attachedVolumes", VList(<< >>)) IN
  IF Truthy(raw_volumes)
    THEN VList([i \in 1..Len(raw_volumes.q) |-> ExtractedVolume(raw_volumes.q[i])])
    ELSE VList(<<VDict([size |-> VInt(256), count |-> VInt(2), type |-> VStr("gp3")])>>)

\* lines 511-515 and 521-525: the type the description itself gives
FallbackType(first_instance) ==
  IF Get(first_instance, "instanceType", VNone) = VStr("GATEWAY_PRIMARY")
    THEN VStr("GATEWAY") ELSE VStr("CORE")

\* a test that does not look at skip_cli_overrides
UsesCliMap_any(skip_cli_overrides, cli_command_data) ==
  /\ Truthy(cli_command_data)
  /\ Truthy(Get(cli_command_data, "instance_groups_override", VNone))

\* line 502: whether the command file's group map is looked at
UsesCliMap(skip_cli_overrides, cli_command_data) ==
  /\ ~skip_cli_overrides
  /\ Truthy(cli_command_data)
  /\ Truthy(Get(cli_command_data, "instance_groups_override", VNone))

\* lines 500-525
InstanceGroupType(group, skip_cli_overrides, cli_command_data) ==
  IF UsesCliMap(skip_cli_overrides, cli_command_data)
    THEN LET group_name == Get(group, "name", VStr("default"))
             cli_group_config ==
               Get(cli_command_data.f["instance_groups_override"], group_name.s,
                   VDict(EmptyDict))
         IN IF Truthy(Get(cli_group_config, "instanceGroupType", VNone))
              THEN cli_group_config.f["instanceGroupType"]
              ELSE FallbackType(FirstInstance(group))
    ELSE FallbackType(FirstInstance(group))

\* lines 529-555: the record of one group, as the objects a, a.template,
\* a.template.rootVolume and a.template.aws
ExtractedRecord(group, skip_cli_overrides, cli_command_data, a) ==
  LET first_instance == FirstInstance(group) IN
  (a :> [name |-> Get(group, "name", VStr("default")),
         nodeCount |-> VInt(Len(Get(group, "instances", VList(<< >>)).q)),
         type |-> InstanceGroupType(group, skip_cli_overrides, cli_command_data),
         recoveryMode |-> VStr("MANUAL"),
         minimumNodeCount |-> VInt(0),
         scalabilityOption |-> VStr("ALLOWED"),
         template |-> VRef(a \o ".template"),
         recipeNames |-> Get(group, "recipes", VList(<< >>)),
         subnetIds |-> Get(group, "subnetIds", VList(<< >>))])
  @@ ((a \o ".template") :>
        [aws |-> VRef(a \o ".template.aws"),
         instanceType |-> Get(first_instance, "instanceVmType", VStr("m6i.4xlarge")),
         rootVolume |-> VRef(a \o ".template.rootVolume"),
         attachedVolumes |-> AttachedVolumes(first_instance),
         cloudPlatform |-> VStr("AWS")])
  @@ ((a \o ".template.rootVolume") :> [size |-> VInt(100)])
  @@ ((a \o ".template.aws") :>
        [encryption |-> VDict([type |-> VStr("DEFAULT"), key |-> VNone]),
         placementGroup |-> VDict([strategy |-> VStr("PARTITION")])])

\* extract_instance_group_details(group, skip_cli_overrides): the command
\* file's group map gives the type and nothing else
extract_instance_group_details_merged(group, skip_cli_overrides, cli_command_data, a) ==
  LET record == ExtractedRecord(group, skip_cli_overrides, cli_command_data, a)
      cli_group_config ==
        IF UsesCliMap(skip_cli_overrides, cli_command_data)
          THEN Get(cli_command_data.f["instance_groups_override"], record[a]["name"].s,
                   VDict(EmptyDict))
          ELSE VDict(EmptyDict)
  IN IF "nodeCount" \in DOMAIN cli_group_config.f
       THEN SetItem(record, a, SetItem(record[a], "nodeCount", cli_group_config.f["nodeCount"]))
       ELSE record
extract_instance_group_details(group, skip_cli_overrides, cli_command_data, a) ==
  ExtractedRecord(group, skip_cli_overrides, cli_command_data, a)

\* the address of the i-th extracted group
GroupAddr(i) == "g" \o ToString(i)

\* lines 713-716: every described group extracted, into heap h
RECURSIVE ExtractGroups(_, _, _, _, _)
ExtractGroups(h, described, i, skip_cli_overrides, cli_command_data) ==
  IF i > Len(described) THEN h
  ELSE ExtractGroups(
         extract_instance_group_details(described[i], skip_cli_overrides,
                                        cli_command_data, GroupAddr(i)) @@ h,
         described, i + 1, skip_cli_overrides, cli_command_data)

\* lines 718-730: the subnet ids every group gets
FinalSubnetIds(h, instance_groups, subnet_id, subnet_ids) ==
  IF Truthy(subnet_ids) THEN subnet_ids
  ELSE IF Truthy(subnet_id) THEN VList(<<subnet_id>>)
  ELSE IF Len(instance_groups) > 0
    THEN (IF "subnetIds" \in DOMAIN h[instance_groups[1]]
            THEN h[instance_groups[1]]["subnetIds"] ELSE VList(<< >>))
  ELSE VList(<< >>)

\* lines 732-736
ApplySubnetIds(h, instance_groups, final_subnet_ids) ==
  IF ~Truthy(final_subnet_ids) THEN h
  ELSE [x \in DOMAIN h |->
          IF \E i \in 1..Len(instance_groups) : instance_groups[i] = x
            THEN SetItem(h[x], "subnetIds", final_subnet_ids) ELSE h[x]]

\* searches that take any group, or the last group of the name
MatchingGroup_any(h, instance_groups, target_name) ==
  IF Len(instance_groups) > 0 THEN 1 ELSE 0
MatchingGroup_last(h, instance_groups, target_name) ==
  LET hits == {i \in 1..Len(instance_groups) :
                 /\ "name" \in DOMAIN h[instance_groups[i]]
                 /\ h[instance_groups[i]]["name"] = target_name}
  IN IF hits = {} THEN 0 ELSE CHOOSE i \in hits : \A j \in hits : j <= i
\* lines 745-746: the place of the first group whose name is target_name, 0
\* when no group has it
MatchingGroup(h, instance_groups, target_name) ==
  LET hits == {i \in 1..Len(instance_groups) :
                 /\ "name" \in DOMAIN h[instance_groups[i]]
                 /\ h[instance_groups[i]]["name"] = target_name}
  IN IF hits = {} THEN 0 ELSE Least(hits)

\* line 749: instance_groups[i] = merged
PlaceMerged_appended(instance_groups, i, m) == Append(instance_groups, m)
PlaceMerged(instance_groups, i, m) == [instance_groups EXCEPT ![i] = m]

\* an override record is a dict with the order of its keys: [keys, f]
\* lines 740-754: the loop over the override records
RECURSIVE ApplyOverrideRecords(_, _, _)
ApplyOverrideRecords(h, instance_groups, overrides) ==
  IF Len(overrides) = 0 THEN [h |-> h, instance_groups |-> instance_groups, raised |-> FALSE]
  ELSE LET override == Head(overrides)
           i == IF "instanceGroupName" \in DOMAIN override.f
                  THEN MatchingGroup(h, instance_groups, override.f["instanceGroupName"])
                  ELSE 0
       IN IF i = 0 THEN ApplyOverrideRecords(h, instance_groups, Tail(overrides))
          ELSE LET m == FreshAddr(h, "m")
                   r == merge_instance_group_override(h, m, instance_groups[i],
                                                      override.f, override.keys)
               IN IF r.res.t # "ref"
                    THEN [h |-> r.h, instance_groups |-> instance_groups, raised |-> TRUE]
                    ELSE ApplyOverrideRecords(r.h, PlaceMerged(instance_groups, i, m),
                                              Tail(overrides))

\* lines 713-736: the instance_groups list, and the heap its records are in,
\* when the loop over the override records starts
InstanceGroupsBeforeOverrides(cluster_data, instance_groups_override, subnet_id, subnet_ids, cli_command_data) ==
  LET cluster_info == Get(cluster_data, "cluster", VDict(EmptyDict))
      described == Get(cluster_info, "instanceGroups", VList(<< >>)).q
      skip_cli_overrides == Len(instance_groups_override) > 0
      instance_groups == [i \in 1..Len(described) |-> GroupAddr(i)]
      h0 == ExtractGroups(EmptyDict, described, 1, skip_cli_overrides, cli_command_data)
      h1 == ApplySubnetIds(h0, instance_groups,
                           FinalSubnetIds(h0, instance_groups, subnet_id, subnet_ids))
  IN [h |-> h1, instance_groups |-> instance_groups]

\* generate_request_template, lines 713-754 and 767: the instanceGroups list
\* of the template it returns, every reference followed
generate_request_template(cluster_data, instance_groups_override, subnet_id, subnet_ids, cli_command_data) ==
  LET before == InstanceGroupsBeforeOverrides(cluster_data, instance_groups_override,
                                              subnet_id, subnet_ids, cli_command_data)
      done == ApplyOverrideRecords(before.h, before.instance_groups, instance_groups_override)
  IN IF done.raised THEN Raised("TypeError")
     ELSE VList([i \in 1..Len(done.instance_groups) |->
                   Deref(done.h, VRef(done.instance_groups[i]))])

-----------------------------------------------------------------------------
(* RDSAnalyzer.analyze_costs (rds/crn_cost_usage/get_cost_usage.py).       *)
(* Its dictionaries are functions on strings; amounts are whole numbers,   *)
(* which float() and float addition represent exactly.                     *)

\* s.lower(), on the letters of the metric names
UpperLetters == "ABCDEFGHIJKLMNOPQRSTUVWXYZ"
LowerLetters == "abcdefghijklmnopqrstuvwxyz"
LowerChar(c) ==
  IF IsCharOf(c, UpperLetters)
    THEN Ch(LowerLetters, CHOOSE i \in 1..Len(UpperLetters) : Ch(UpperLetters, i) = c)
    ELSE c
RECURSIVE Lower(_)
Lower(s) == IF Len(s) = 0 THEN "" ELSE LowerChar(Ch(s, 1)) \o Lower(Tail(s))

\* line 448: the metrics looked for in result['Total'], in this order
CostMetrics == <<"BlendedCost", "UnblendedCost", "AmortizedCost", "NetUnblendedCost", "NetAmortizedCost">>

\* lines 424-430: the keys total_costs is created with
CostKeys == {"blended", "unblended", "amortized", "net_unblended", "net_amortized"}

\* lines 453-454: metric.lower().replace('cost', '')
MetricKey(metric) == Replace(Lower(metric), "cost", "")

\* float(text) of line 452 on the amount texts drawn: a whole-number literal
\* gives its value, any other text raises ValueError
PyFloat(text) == PyInt(text)

\* lines 424-436: the analysis before the first result
NewAnalysis ==
  [total_costs |-> [key \in CostKeys |-> 0], daily_costs |-> << >>,
   cost_breakdown |-> EmptyDict, available_metrics |-> << >>]

\* lines 440-447: the entry a result starts with
NewDailyCosts(result) ==
  SetItem([key \in CostKeys |-> 0], "date", result["TimePeriod"]["Start"])

\* lines 448-459, from the i-th metric on; st holds the entry, the totals and
\* the metrics seen so far, and raised once an exception left the loop
RECURSIVE MetricLoop(_, _, _)
MetricLoop(result, i, st) ==
  IF i > Len(CostMetrics) THEN st
  ELSE
    LET metric == CostMetrics[i]
        key    == MetricKey(metric)
        total  == result["Total"]
    IN IF metric \notin DOMAIN total THEN MetricLoop(result, i + 1, st)
       ELSE IF "Amount" \notin DOMAIN total[metric]
         THEN [st EXCEPT !.raised = "KeyError"]
       ELSE IF ~PyFloat(total[metric]["Amount"]).ok
         THEN [st EXCEPT !.raised = "ValueError"]
       ELSE
         LET cost  == PyFloat(total[metric]["Amount"]).v
             daily == SetItem(st.daily_costs, key, cost)
         IN IF key \notin DOMAIN st.total_costs
              THEN [st EXCEPT !.raised = "KeyError", !.daily_costs = daily]
              ELSE MetricLoop(result, i + 1,
                     [raised |-> "",
                      daily_costs |-> daily,
                      total_costs |-> [st.total_costs EXCEPT ![key] = @ + cost],
                      available_metrics |->
                        IF \E j \in 1..Len(st.available_metrics) : st.available_metrics[j] = metric
                          THEN st.available_metrics
                          ELSE Append(st.available_metrics, metric)])

\* lines 438-468, one result: an exception of the try block skips the rest of
\* the result and keeps what was already written to the analysis
ProcessResult(analysis, result) ==
  IF \/ "TimePeriod" \notin DOMAIN result
     \/ "Start" \notin DOMAIN result["TimePeriod"]
     \/ "Total" \notin DOMAIN result
    THEN analysis
  ELSE
    LET st == MetricLoop(result, 1,
                [raised |-> "", daily_costs |-> NewDailyCosts(result),
                 total_costs |-> analysis.total_costs,
                 available_metrics |-> analysis.available_metrics])
        written == [analysis EXCEPT !.total_costs = st.total_costs,
                                    !.available_metrics = st.available_metrics]
    IN IF st.raised # "" THEN written
       ELSE IF Len(st.available_metrics) = 0 THEN written
       ELSE [written EXCEPT !.daily_costs = Append(@, st.daily_costs)]

RECURSIVE GeneralCostsLoop(_, _, _)
GeneralCostsLoop(analysis, results, i) ==
  IF i > Len(results) THEN analysis
  ELSE GeneralCostsLoop(ProcessResult(analysis, results[i]), results, i + 1)

\* analyze_costs, lines 411-489; the data drawn carries no rds_detailed_costs,
\* so the loop of lines 471-487 has nothing to add to cost_breakdown
GeneralCosts(data) ==
  IF "general_costs" \in DOMAIN data THEN data["general_costs"] ELSE << >>
analyze_costs(data) == GeneralCostsLoop(NewAnalysis, GeneralCosts(data), 1)

-----------------------------------------------------------------------------
(* Bounds and input sets *)

\* the most keys the two override records of a merge scenario hold together
MaxOverrideKeys == 2
\* the most comma- or space-separated fields of a parser input
MaxFields == 2
\* the most fields of the --instance-groups region of a command string
MaxRegionFields == 2
\* the most records of a volume list
MaxVolumes == 2
\* the most override records generate_request_template is given
MaxOverrides == 2
\* the most flags of a command string
MaxFlagParts == 2
\* the most ordinary fields on each side of the volume field of a group
MaxSideFields == 1
\* the most results of the general_costs list
MaxResults == 2

\* the record extract_instance_group_details builds (lines 530-555) for a
\* group "core" of three instances, as heap objects under the address "b"
FullBaseline ==
  [b |-> [name |-> VStr("core"), nodeCount |-> VInt(3), type |-> VStr("CORE"),
          recoveryMode |-> VStr("MANUAL"), minimumNodeCount |-> VInt(0),
          scalabilityOption |-> VStr("ALLOWED"), template |-> VRef("b.template"),
          recipeNames |-> VList(<< >>), subnetIds |-> VList(<<VStr("subnet-1")>>)]]
  @@ ("b.template" :>
        [aws |-> VRef("b.template.aws"), instanceType |-> VStr("m6i.4xlarge"),
         rootVolume |-> VRef("b.template.rootVolume"),
         attachedVolumes |->
           VList(<<VDict([size |-> VInt(256), count |-> VInt(2), type |-> VStr("gp3")])>>),
         cloudPlatform |-> VStr("AWS")])
  @@ ("b.template.rootVolume" :> [size |-> VInt(100)])
  @@ ("b.template.aws" :>
        [encryption |-> VDict([type |-> VStr("DEFAULT"), key |-> VNone]),
         placementGroup |-> VDict([strategy |-> VStr("PARTITION")])])

Without(f, k) == [x \in DOMAIN f \ {k} |-> f[x]]

\* baselines of other shapes: an intermediate of a nested path missing, or
\* holding a value that is not a mapping
Baselines ==
  { FullBaseline,
    SetItem(Without(Without(Without(FullBaseline, "b.template"), "b.template.rootVolume"),
                    "b.template.aws"),
            "b", Without(FullBaseline["b"], "template")),
    SetItem(Without(Without(Without(FullBaseline, "b.template"), "b.template.rootVolume"),
                    "b.template.aws"),
            "b", SetItem(FullBaseline["b"], "template", VStr("m6i.4xlarge"))),
    SetItem(Without(FullBaseline, "b.template.rootVolume"),
            "b.template", Without(FullBaseline["b.template"], "rootVolume")),
    SetItem(Without(FullBaseline, "b.template.rootVolume"),
            "b.template", SetItem(FullBaseline["b.template"], "rootVolume", VInt(100))) }

\* one override value per key: the eight mapped keys, and two keys the
\* mapping does not have (one new, one the name of a baseline field)
OverrideValue ==
  [instanceGroupName |-> VStr("worker"),
   nodeCount |-> VInt(5),
   instanceGroupType |-> VStr("GATEWAY"),
   instanceType |-> VStr("r5.xlarge"),
   attachedVolumeConfiguration |->
     VList(<<VDict([size |-> VInt(500), count |-> VInt(1), type |-> VStr("gp3")])>>),
   rootVolumeSize |-> VInt(500),
   recipeNames |-> VList(<<VStr("recipe1")>>),
   recoveryMode |-> VStr("AUTO"),
   customKey |-> VStr("x"),
   template |-> VStr("junk")]

OverrideOf(keys) == [k \in keys |-> OverrideValue[k]]

KeySets(n) == {ks \in SUBSET DOMAIN OverrideValue : Cardinality(ks) <= n}

\* the orders in which a dict with these keys can be iterated
Orders(keys) ==
  {q \in [1..Cardinality(keys) -> keys] : \A i, j \in DOMAIN q : i # j => q[i] # q[j]}

Union(f, g) == f @@ g

-----------------------------------------------------------------------------
(* The merge scenario: a baseline "b" and two override records A and B with *)
(* disjoint keys.  A call is named by its label: "A", "B" and "AuB" merge   *)
(* that override (AuB: both together) onto the baseline, "AB" merges B onto *)
(* the result of "A", "BA" merges A onto the result of "B", "AA" merges A   *)
(* onto the result of "A".  The calls are made one after the other, in the  *)
(* order of the scenario's plan.                                            *)

Labels == {"A", "B", "AuB", "AB", "BA", "AA"}
Plans == { <<"A", "AB", "B", "BA", "AuB", "AA">>,
           <<"AuB", "B", "BA", "A", "AA", "AB">> }
TargetOf == [A |-> "b", B |-> "b", AuB |-> "b", AB |-> "A", BA |-> "B", AA |-> "A"]
OverrideFor(l) ==
  CASE l \in {"A", "BA", "AA"} -> ovA
    [] l \in {"B", "AB"} -> ovB
    [] OTHER -> Union(ovA, ovB)

InitMerge ==
  /\ mode = "merge"
  /\ heap \in Baselines
  /\ \E ka \in KeySets(MaxOverrideKeys) :
       \E kb \in KeySets(MaxOverrideKeys - Cardinality(ka)) :
         /\ ka \cap kb = {}
         /\ ovA = OverrideOf(ka)
         /\ ovB = OverrideOf(kb)
  /\ plan \in Plans
  /\ calls = EmptyDict
  /\ cost_analysis = NotCalled
  /\ cost_data = EmptyDict
  /\ templates = EmptyDict
  /\ self_cli_command_data = VNone
  /\ given_overrides = << >>
  /\ given_cluster_data = VNone
  /\ volume_list = NotCalled
  /\ input_parts = << >>
  /\ arg = ""
  /\ groups = NotCalled
  /\ parsed = NotCalled

\* one call merged = merge_instance_group_override(target, override); the
\* call's record keeps the target's value before the call, the value of the
\* record returned, whether the target still has its value after the call,
\* and the objects the result shares with it
MergeCall(l) ==
  /\ mode = "merge"
  /\ Cardinality(DOMAIN calls) < Len(plan)
  /\ l = plan[Cardinality(DOMAIN calls) + 1]
  /\ \E order \in Orders(DOMAIN OverrideFor(l)) :
       LET r == merge_instance_group_override(heap, l, TargetOf[l], OverrideFor(l), order) IN
       /\ heap' = r.h
       /\ calls' = SetItem(calls, l,
            [res    |-> r.res,
             before |-> Deref(heap, VRef(TargetOf[l])),
             merged |-> Deref(r.h, r.res),
             intact |-> Deref(r.h, VRef(TargetOf[l])) = Deref(heap, VRef(TargetOf[l])),
             shared |-> IF r.res.t = "ref"
                          THEN Reach(r.h, l) \cap Reach(r.h, TargetOf[l]) ELSE {}])
  /\ UNCHANGED <<mode, input_parts, arg, groups, parsed, ovA, ovB, plan, volume_list, given_cluster_data, given_overrides, self_cli_command_data, templates, cost_data, cost_analysis>>

NextMerge == \E l \in Labels : MergeCall(l)

SpecMerge == InitMerge /\ [][NextMerge]_vars

-----------------------------------------------------------------------------
(* The parser scenarios: an input string, and the functions applied to it  *)

\* fields of a group: integer and non-integer values of the integer keys, a
\* value with whitespace to trim, a recipe list, the volume field well formed,
\* unbalanced and unbracketed, an empty field and a pair without '='
Fields ==
  { "nodeCount=3", "nodeCount=3x", "nodeCount=\t7", "rootVolumeSize=200",
    "rootVolumeSize=", "instanceGroupName=core", "recipeNames=recipe1,recipe2",
    "attachedVolumeConfiguration=[{volumeSize=256,volumeCount=2,volumeType=gp3}]",
    "attachedVolumeConfiguration=[{volumeSize=8}", "attachedVolumeConfiguration=gp3",
    "", "novalue" }

Separators == {",", " "}

\* up to n fields of F, each two with a separator between them
RECURSIVE Joined(_, _)
Joined(F, n) ==
  IF n = 0 THEN {<< >>}
  ELSE IF n = 1 THEN {<< >>} \cup {<<f>> : f \in F}
  ELSE Joined(F, n - 1)
       \cup {q \o <<sep, f>> : q \in Joined(F, n - 1) \ {<< >>}, sep \in Separators, f \in F}

RECURSIVE Concat(_)
Concat(q) == IF Len(q) = 0 THEN "" ELSE Head(q) \o Concat(Tail(q))

GroupInputs == Joined(Fields, MaxFields)

InitGroups ==
  /\ mode = "groups"
  /\ input_parts \in GroupInputs
  /\ arg = Concat(input_parts)
  /\ groups = NotCalled
  /\ parsed = NotCalled
  /\ heap = EmptyDict
  /\ ovA = EmptyDict
  /\ ovB = EmptyDict
  /\ plan = << >>
  /\ calls = EmptyDict
  /\ cost_analysis = NotCalled
  /\ cost_data = EmptyDict
  /\ templates = EmptyDict
  /\ self_cli_command_data = VNone
  /\ given_overrides = << >>
  /\ given_cluster_data = VNone
  /\ volume_list = NotCalled

ParseInstanceGroupsArgument ==
  /\ mode \in {"groups", "isolate"}
  /\ groups = NotCalled
  /\ groups' = parse_instance_groups_argument(arg)
  /\ UNCHANGED <<mode, input_parts, arg, parsed, heap, ovA, ovB, plan, calls, volume_list, given_cluster_data, given_overrides, self_cli_command_data, templates, cost_data, cost_analysis>>

NextGroups == ParseInstanceGroupsArgument

SpecGroups == InitGroups /\ [][NextGroups]_vars

\* one group with the volume field in it: ordinary fields, each followed by a
\* comma, then the field with its value, then ordinary fields, each after a
\* comma.  The ordinary fields hold no bracket.
SideFields ==
  { "nodeCount=3", "rootVolumeSize=\t200", "instanceGroupName=core",
    "recipeNames=recipe1,recipe2", "novalue" }

\* after the field the group may name the field again
AfterFields == SideFields \cup {"attachedVolumeConfiguration=gp3"}

\* values of the field whose bracket count comes back to zero at their last
\* character: lists of records, the empty list and a list with a bracket inside
BalancedTexts ==
  { "[{volumeSize=256,volumeCount=2,volumeType=gp3}]", "[{volumeSize=8},{volumeCount=2}]",
    "[]", "[{volumeSize=8},{volumeType=[x]}]" }

\* values whose bracket count never comes back to zero: a list that is not
\* closed, values without an opening bracket, a closing bracket first
UnbalancedTexts ==
  { "[{volumeSize=8}", "[{volumeSize=8},{volumeCount=2}", "[[{volumeSize=8}]", "gp3",
    "{volumeSize=8}", "", "][" }

VolumeTexts == BalancedTexts \cup UnbalancedTexts

\* the sequences of up to n fields of F
RECURSIVE SideSequences(_, _)
SideSequences(F, n) ==
  IF n = 0 THEN {<< >>}
  ELSE SideSequences(F, n - 1)
       \cup {Append(q, f) : q \in {x \in SideSequences(F, n - 1) : Len(x) = n - 1}, f \in F}

RECURSIVE BeforeText(_)
BeforeText(q) == IF Len(q) = 0 THEN "" ELSE Head(q) \o "," \o BeforeText(Tail(q))

RECURSIVE AfterText(_)
AfterText(q) == IF Len(q) = 0 THEN "" ELSE "," \o Head(q) \o AfterText(Tail(q))

IsolationInputs ==
  {<<BeforeText(b), AVC, text, AfterText(a)>> :
     b \in SideSequences(SideFields, MaxSideFields), text \in VolumeTexts,
     a \in SideSequences(AfterFields, MaxSideFields)}

InitIsolation ==
  /\ mode = "isolate"
  /\ input_parts \in IsolationInputs
  /\ arg = Concat(input_parts)
  /\ groups = NotCalled
  /\ parsed = NotCalled
  /\ volume_list = NotCalled
  /\ heap = EmptyDict
  /\ ovA = EmptyDict
  /\ ovB = EmptyDict
  /\ plan = << >>
  /\ calls = EmptyDict
  /\ cost_analysis = NotCalled
  /\ cost_data = EmptyDict
  /\ given_cluster_data = VNone
  /\ given_overrides = << >>
  /\ self_cli_command_data = VNone
  /\ templates = EmptyDict

SpecIsolation == InitIsolation /\ [][NextGroups]_vars

\* command strings: the text up to the region of --instance-groups and the
\* text after it, around a region; and command strings without the flag
RegionFields ==
  { "nodeCount=3", "instanceGroupName=core", "recipeNames=recipe1,recipe2",
    "instanceGroupName=gw,instanceGroupType=GATEWAY",
    "attachedVolumeConfiguration=[{volumeSize=256,volumeCount=2,volumeType=gp3}]",
    "novalue" }

Shapes ==
  { <<"cdp datahub create-aws-cluster --cluster-name dh1 --instance-groups ", "">>,
    <<"cdp datahub create-aws-cluster --instance-groups ",
      " --multi-az --subnet-id subnet-1">>,
    <<"--instance-groups\n  ",
      "\n  --tags key=\"team\",value=\"data\" --datahub-database NON_HA">>,
    <<"cdp datahub create-aws-cluster --instance-groups", " ">> }

CliInputs ==
  {<<"">>, <<"cdp datahub create-aws-cluster --cluster-name dh1 --no-multi-az">>,
   <<"cdp datahub create-aws-cluster --tags key=\"team\",value=\"data\" --subnet-id subnet-1">>}
  \cup {<<sh[1]>> \o r \o <<sh[2]>> : sh \in Shapes, r \in Joined(RegionFields, MaxRegionFields)}

InitCli ==
  /\ mode = "cli"
  /\ input_parts \in CliInputs
  /\ arg = Concat(input_parts)
  /\ groups = NotCalled
  /\ parsed = NotCalled
  /\ heap = EmptyDict
  /\ ovA = EmptyDict
  /\ ovB = EmptyDict
  /\ plan = << >>
  /\ calls = EmptyDict
  /\ cost_analysis = NotCalled
  /\ cost_data = EmptyDict
  /\ templates = EmptyDict
  /\ self_cli_command_data = VNone
  /\ given_overrides = << >>
  /\ given_cluster_data = VNone
  /\ volume_list = NotCalled

ParseCliCommand ==
  /\ mode \in {"cli", "flags"}
  /\ parsed = NotCalled
  /\ parsed' = _parse_cli_command(arg)
  /\ UNCHANGED <<mode, input_parts, arg, groups, heap, ovA, ovB, plan, calls, volume_list, given_cluster_data, given_overrides, self_cli_command_data, templates, cost_data, cost_analysis>>

NextCli == ParseCliCommand

SpecCli == InitCli /\ [][NextCli]_vars

\* command strings made of flags: the toggles, the single-value flags (one
\* without a value, one that only starts like --subnet-id), tags in plain
\* and in doubled quoting, a tag value with "--" in it, and key/value pairs
\* that no --tags marker introduces
FlagParts ==
  { "--multi-az", "--no-multi-az", "--enable-load-balancer", "--no-enable-load-balancer",
    "--subnet-id subnet-1", "--subnet-id", "--subnet-ids subnet-3",
    "--datahub-database NON_HA",
    "--tags key=\"team\",value=\"data\"", "--tags key=\"\"team\"\",value=\"\"data\"\"",
    "--tags key=\"\"env\"\",value=\"\"a--b\"\"", "key=\"owner\",value=\"ops\"",
    "key=\"team\",value=\"core\"" }

\* up to n flags, each after a space
RECURSIVE FlagSequences(_)
FlagSequences(n) ==
  IF n = 0 THEN {<< >>}
  ELSE FlagSequences(n - 1)
       \cup {q \o <<" ", f>> : q \in {x \in FlagSequences(n - 1) : Len(x) = 2 * (n - 1)},
                               f \in FlagParts}

FlagInputs == {<<"cdp datahub create-aws-cluster">> \o q : q \in FlagSequences(MaxFlagParts)}

InitFlags ==
  /\ mode = "flags"
  /\ input_parts \in FlagInputs
  /\ arg = Concat(input_parts)
  /\ groups = NotCalled
  /\ parsed = NotCalled
  /\ volume_list = NotCalled
  /\ heap = EmptyDict
  /\ ovA = EmptyDict
  /\ ovB = EmptyDict
  /\ plan = << >>
  /\ calls = EmptyDict
  /\ cost_analysis = NotCalled
  /\ cost_data = EmptyDict
  /\ given_cluster_data = VNone
  /\ given_overrides = << >>
  /\ self_cli_command_data = VNone
  /\ templates = EmptyDict

SpecFlags == InitFlags /\ [][NextCli]_vars

-----------------------------------------------------------------------------
(* The volume-list scenario: parse_attached_volumes applied to a string    *)

\* records of a volume list: all three keys, one key, values that are not
\* integers or have whitespace around them, a key the mapping does not have,
\* a pair without '=', and records without any mapped key
VolumeRecords ==
  { "{volumeSize=256,volumeCount=2,volumeType=gp3}", "{volumeSize=8}",
    "{volumeType=st1}", "{volumeSize=big,volumeCount= 2 }",
    "{volumeCount=2x,iops=3000}", "{volumeSize=16,encrypted,volumeType=io1}",
    "{iops=3000}", "{}" }

\* up to n records with "," between them
RECURSIVE VolumeSequences(_)
VolumeSequences(n) ==
  IF n = 0 THEN {<< >>}
  ELSE IF n = 1 THEN {<< >>} \cup {<<r>> : r \in VolumeRecords}
  ELSE VolumeSequences(n - 1)
       \cup {q \o <<",", r>> : q \in VolumeSequences(n - 1) \ {<< >>}, r \in VolumeRecords}

\* the records with and without the opening and the closing bracket
VolumeInputs ==
  {<<open>> \o q \o <<close>> :
     open \in {"[", ""}, close \in {"]", ""}, q \in VolumeSequences(MaxVolumes)}

InitVolumes ==
  /\ mode = "volumes"
  /\ input_parts \in VolumeInputs
  /\ arg = Concat(input_parts)
  /\ volume_list = NotCalled
  /\ groups = NotCalled
  /\ parsed = NotCalled
  /\ heap = EmptyDict
  /\ ovA = EmptyDict
  /\ ovB = EmptyDict
  /\ plan = << >>
  /\ calls = EmptyDict
  /\ cost_analysis = NotCalled
  /\ cost_data = EmptyDict
  /\ given_cluster_data = VNone
  /\ given_overrides = << >>
  /\ self_cli_command_data = VNone
  /\ templates = EmptyDict

ParseAttachedVolumes ==
  /\ mode = "volumes"
  /\ volume_list = NotCalled
  /\ volume_list' = parse_attached_volumes(arg)
  /\ UNCHANGED <<mode, input_parts, arg, groups, parsed, heap, ovA, ovB, plan, calls, given_cluster_data, given_overrides, self_cli_command_data, templates, cost_data, cost_analysis>>

NextVolumes == ParseAttachedVolumes

SpecVolumes == InitVolumes /\ [][NextVolumes]_vars

-----------------------------------------------------------------------------
(* The generator scenario: generate_request_template run on a cluster      *)
(* description with a list of override records and the command-file data,  *)
(* and then run again on the same description with the override records in *)
(* another order ("permuted"), with another group map in the command-file  *)
(* data ("remapped"), and without one override record that names no group  *)
(* of the cluster ("dropped").                                             *)

DescribedInstance ==
  VDict([instanceVmType |-> VStr("r6i.2xlarge"), instanceType |-> VStr("CORE"),
         attachedVolumes |->
           VList(<<VDict([size |-> VInt(512), count |-> VInt(1), volumeType |-> VStr("gp2")])>>)])

\* described groups: a group of two instances, a gateway group whose instance
\* has no volumes, and a second group named core that has no instances
DescribedCore ==
  VDict([name |-> VStr("core"), instances |-> VList(<<DescribedInstance, DescribedInstance>>),
         recipes |-> VList(<<VStr("setup")>>), subnetIds |-> VList(<<VStr("subnet-1")>>)])
DescribedGateway ==
  VDict([name |-> VStr("gateway"),
         instances |-> VList(<<VDict([instanceType |-> VStr("GATEWAY_PRIMARY")])>>)])
DescribedCoreAgain == VDict([name |-> VStr("core")])

ClusterOf(described) == VDict([cluster |-> VDict([instanceGroups |-> VList(described)])])

Clusters ==
  { ClusterOf(<<DescribedCore>>), ClusterOf(<<DescribedCore, DescribedGateway>>),
    ClusterOf(<<DescribedGateway, DescribedCoreAgain, DescribedCore>>),
    VDict([cluster |-> VDict(EmptyDict)]) }

\* an override record as parse_instance_groups_argument returns it: the keys
\* in the order they were set, and the dict
OverrideRecord(keys, d) == [keys |-> keys, f |-> d]

\* two records for core that set nodeCount, one that sets other keys of core,
\* one for gateway, one without instanceGroupName and one for a group that
\* the cluster does not have
OverrideRecords ==
  { OverrideRecord(<<"nodeCount", "instanceGroupName">>,
                   [nodeCount |-> VInt(5), instanceGroupName |-> VStr("core")]),
    OverrideRecord(<<"instanceGroupName", "nodeCount", "instanceType">>,
                   [instanceGroupName |-> VStr("core"), nodeCount |-> VInt(7),
                    instanceType |-> VStr("r5.xlarge")]),
    OverrideRecord(<<"attachedVolumeConfiguration", "instanceGroupName", "rootVolumeSize">>,
                   [attachedVolumeConfiguration |-> parse_attached_volumes("[{volumeSize=8}]"),
                    instanceGroupName |-> VStr("core"), rootVolumeSize |-> VInt(500)]),
    OverrideRecord(<<"instanceGroupName", "instanceGroupType">>,
                   [instanceGroupName |-> VStr("gateway"), instanceGroupType |-> VStr("CORE")]),
    OverrideRecord(<<"nodeCount">>, [nodeCount |-> VInt(9)]),
    OverrideRecord(<<"nodeCount", "instanceGroupName">>,
                   [nodeCount |-> VInt(1), instanceGroupName |-> VStr("nosuch")]) }

\* the lists of up to n override records
RECURSIVE OverrideLists(_)
OverrideLists(n) ==
  IF n = 0 THEN {<< >>}
  ELSE OverrideLists(n - 1)
       \cup {Append(q, o) : q \in {x \in OverrideLists(n - 1) : Len(x) = n - 1},
                            o \in OverrideRecords}

\* command files: one whose groups say core is a gateway and carry other
\* fields, one that types the gateway group and gives core an empty type, one
\* without --instance-groups
CommandFiles ==
  { "cdp datahub create-aws-cluster --instance-groups nodeCount=9,instanceGroupName=core,instanceGroupType=GATEWAY,instanceType=m5.large,recipeNames=r9",
    "cdp datahub create-aws-cluster --instance-groups instanceGroupName=gateway,instanceGroupType=CORE,rootVolumeSize=900 nodeCount=4,instanceGroupType=,instanceGroupName=core --multi-az",
    "cdp datahub create-aws-cluster --cluster-name dh1 --multi-az" }

CliMaps == {_parse_cli_command(c).f["instance_groups_override"] : c \in CommandFiles}

\* the runs compared with the run on the given inputs
Variations == {"permuted", "remapped", "dropped"}

\* the names the groups of the cluster are extracted under (line 530)
DescribedNames ==
  LET described ==
        Get(Get(given_cluster_data, "cluster", VDict(EmptyDict)), "instanceGroups",
            VList(<< >>)).q
  IN {Get(described[i], "name", VStr("default")) : i \in 1..Len(described)}

\* an override record that names no group of the cluster
NamesNoGroup(override) ==
  \/ "instanceGroupName" \notin DOMAIN override.f
  \/ override.f["instanceGroupName"] \notin DescribedNames

RemoveAt(q, i) == SubSeq(q, 1, i - 1) \o SubSeq(q, i + 1, Len(q))

GivenInputs == [overrides |-> given_overrides, cli |-> self_cli_command_data]

\* the inputs of each run
RunInputs(l) ==
  CASE l = "permuted" ->
         {[overrides |-> [i \in 1..Len(given_overrides) |-> given_overrides[p[i]]],
           cli |-> self_cli_command_data] : p \in Orders(1..Len(given_overrides))}
    [] l = "remapped" /\ self_cli_command_data # VNone ->
         {[overrides |-> given_overrides,
           cli |-> VDict(SetItem(self_cli_command_data.f, "instance_groups_override", m))] :
            m \in CliMaps}
    [] l = "dropped" /\ Len(given_overrides) >= 2
                    /\ \E i \in 1..Len(given_overrides) : NamesNoGroup(given_overrides[i]) ->
         {[overrides |-> RemoveAt(given_overrides, i), cli |-> self_cli_command_data] :
            i \in {j \in 1..Len(given_overrides) : NamesNoGroup(given_overrides[j])}}
    [] OTHER -> {GivenInputs}

InitTemplate ==
  /\ mode = "template"
  /\ given_cluster_data \in Clusters
  /\ given_overrides \in OverrideLists(MaxOverrides)
  /\ self_cli_command_data \in {VNone} \cup {_parse_cli_command(c) : c \in CommandFiles}
  /\ templates = EmptyDict
  /\ input_parts = << >>
  /\ arg = ""
  /\ groups = NotCalled
  /\ parsed = NotCalled
  /\ volume_list = NotCalled
  /\ heap = EmptyDict
  /\ ovA = EmptyDict
  /\ ovB = EmptyDict
  /\ plan = << >>
  /\ calls = EmptyDict
  /\ cost_analysis = NotCalled
  /\ cost_data = EmptyDict

\* the run on the given inputs and then one of the variations; one run is
\* template = generate_request_template(cluster_data,
\* instance_groups_override=overrides) of a generator whose cli_command_data
\* is cli; the run's record keeps its inputs, the instance groups as they
\* were when the loop over the override records started, and the
\* instanceGroups it returned
GenerateRequestTemplate(l) ==
  /\ mode = "template"
  /\ \/ l = "given" /\ DOMAIN templates = {}
     \/ l \in Variations /\ DOMAIN templates = {"given"}
  /\ \E in \in RunInputs(l) :
       templates' = SetItem(templates, l,
         [overrides |-> in.overrides,
          cli |-> in.cli,
          extracted |->
            LET before == InstanceGroupsBeforeOverrides(given_cluster_data, in.overrides,
                                                        VNone, VNone, in.cli)
            IN [i \in 1..Len(before.instance_groups) |->
                  Deref(before.h, VRef(before.instance_groups[i]))],
          instanceGroups |->
            generate_request_template(given_cluster_data, in.overrides, VNone, VNone, in.cli)])
  /\ UNCHANGED <<mode, input_parts, arg, groups, parsed, heap, ovA, ovB, plan, calls,
                 volume_list, given_cluster_data, given_overrides, self_cli_command_data, cost_data, cost_analysis>>

NextTemplate == \E l \in {"given"} \cup Variations : GenerateRequestTemplate(l)

SpecTemplate == InitTemplate /\ [][NextTemplate]_vars

-----------------------------------------------------------------------------
(* The cost scenario: analyze_costs run on cost data whose general_costs   *)
(* list holds well-formed results, results with the net metrics and        *)
(* results that lack a key or carry an amount that is not a number.        *)

Amount(text) == "Amount" :> text
CostResult(date, total) == ("TimePeriod" :> ("Start" :> date)) @@ ("Total" :> total)

CostResults ==
  { CostResult("2024-01-01", ("BlendedCost" :> Amount("3")) @@ ("UnblendedCost" :> Amount("2"))),
    CostResult("2024-01-02", ("BlendedCost" :> Amount("1")) @@ ("AmortizedCost" :> Amount("5"))),
    CostResult("2024-01-02", ("BlendedCost" :> Amount("1")) @@ ("NetUnblendedCost" :> Amount("1"))),
    CostResult("2024-01-03", "NetAmortizedCost" :> Amount("4")),
    CostResult("2024-01-03", ("UnblendedCost" :> Amount("2")) @@ ("AmortizedCost" :> Amount("abc"))),
    CostResult("2024-01-04", ("BlendedCost" :> Amount("7")) @@ ("UnblendedCost" :> EmptyDict)),
    CostResult("2024-01-04", "BlendedCost" :> Amount("")),
    CostResult("2024-01-05", EmptyDict),
    "Total" :> ("BlendedCost" :> Amount("3")),
    "TimePeriod" :> ("Start" :> "2024-01-06") }

RECURSIVE ResultLists(_)
ResultLists(n) ==
  IF n = 0 THEN {<< >>}
  ELSE ResultLists(n - 1) \cup
       {Append(rs, r) : rs \in {q \in ResultLists(n - 1) : Len(q) = n - 1}, r \in CostResults}

CostInputs ==
  {EmptyDict} \cup {"general_costs" :> rs : rs \in ResultLists(MaxResults)}

InitCosts ==
  /\ mode = "costs"
  /\ cost_data \in CostInputs
  /\ cost_analysis = NotCalled
  /\ input_parts = << >>
  /\ arg = ""
  /\ groups = NotCalled
  /\ parsed = NotCalled
  /\ volume_list = NotCalled
  /\ heap = EmptyDict
  /\ ovA = EmptyDict
  /\ ovB = EmptyDict
  /\ plan = << >>
  /\ calls = EmptyDict
  /\ given_cluster_data = VNone
  /\ given_overrides = << >>
  /\ self_cli_command_data = VNone
  /\ templates = EmptyDict

\* cost_analysis = analyzer.analyze_costs(cost_data)
AnalyzeCosts ==
  /\ mode = "costs"
  /\ cost_analysis = NotCalled
  /\ cost_analysis' = analyze_costs(cost_data)
  /\ UNCHANGED <<mode, input_parts, arg, groups, parsed, heap, ovA, ovB, plan, calls, volume_list, given_cluster_data, given_overrides, self_cli_command_data, templates, cost_data>>

NextCosts == AnalyzeCosts

SpecCosts == InitCosts /\ [][NextCosts]_vars

-----------------------------------------------------------------------------
(* Every scenario together *)

Init == InitMerge \/ InitGroups \/ InitCli \/ InitFlags \/ InitVolumes \/ InitTemplate \/ InitCosts

Next == NextMerge \/ NextGroups \/ NextCli \/ NextVolumes \/ NextTemplate \/ NextCosts

Spec == Init /\ [][Next]_vars

-----------------------------------------------------------------------------
(* Claims about merge_instance_group_override (checked under SpecMerge)    *)

Done(l) == l \in DOMAIN calls /\ calls[l].res.t = "ref"

\* The value of the record a finished call returned, every reference followed
Merged(l) == Deref(heap, VRef(l))

\* C1: merge_instance_group_override never mutates its baseline argument:
\* after every call the target record, nested template and template.rootVolume
\* included, is equal to what it was before the call, and the returned record
\* shares no mutable sub-mapping with it.
C1_BaselineNeverMutated ==
  \A l \in DOMAIN calls : calls[l].intact /\ calls[l].shared = {}

\* The destinations the field mapping of the claims names, per override key
Destination ==
  [instanceGroupName |-> <<"name">>,
   nodeCount |-> <<"nodeCount">>,
   instanceGroupType |-> <<"type">>,
   instanceType |-> <<"template", "instanceType">>,
   attachedVolumeConfiguration |-> <<"template", "attachedVolumes">>,
   rootVolumeSize |-> <<"template", "rootVolume", "size">>,
   recipeNames |-> <<"recipeNames">>,
   recoveryMode |-> <<"recoveryMode">>]

\* The value at the end of a path of a dict value, VNone when there is none
RECURSIVE ValueAt(_, _)
ValueAt(x, path) ==
  IF x.t # "dict" \/ Head(path) \notin DOMAIN x.f THEN VNone
  ELSE IF Len(path) = 1 THEN x.f[path[1]]
  ELSE ValueAt(x.f[Head(path)], Tail(path))

\* C2: the record returned by merge_instance_group_override holds, for each
\* override key of the fixed mapping, the override's value at the mapped
\* destination (the volume list replaced as a whole, not merged element-wise).
C2_OverrideValueAtDestination ==
  \A l \in DOMAIN calls :
    Done(l) =>
      \A k \in DOMAIN OverrideFor(l) \cap DOMAIN Destination :
        ValueAt(Merged(l), Destination[k]) = OverrideFor(l)[k]

\* C2 witness: a call whose override has the volume list and the root volume
\* size has returned, and its record holds both at their nested destinations.
C2_Witness ==
  /\ Done("A")
  /\ DOMAIN ovA = {"attachedVolumeConfiguration", "rootVolumeSize"}
  /\ ValueAt(Merged("A"), <<"template", "rootVolume", "size">>) = VInt(500)
  /\ ValueAt(Merged("A"), <<"template", "attachedVolumes">>)
       = OverrideValue["attachedVolumeConfiguration"]

\* The top-level destinations of the mapped keys of an override
TopDestinations(o) == {Destination[k][1] : k \in DOMAIN o \cap DOMAIN Destination}

\* C5 as claimed: an override key that is not one of the eight mapped names
\* is never stored: the top-level keys of the merged record are the baseline's
\* top-level keys plus the top-level destinations of the mapped override keys,
\* and an unmapped override key the baseline does not have is absent from the
\* result.
C5_AsClaimed ==
  \A l \in DOMAIN calls :
    Done(l) =>
      /\ DOMAIN Merged(l).f = DOMAIN calls[l].before.f \cup TopDestinations(OverrideFor(l))
      /\ \A k \in DOMAIN OverrideFor(l) \ DOMAIN Destination :
           k \notin DOMAIN calls[l].before.f => k \notin DOMAIN Merged(l).f

\* C5 as amended: the top-level keys of the merged record are the baseline's
\* top-level keys plus the top-level destinations of the mapped override keys;
\* the value of an unmapped override key is never stored; and an unmapped
\* override key that the baseline does not have is absent from the result
\* unless it is the name of such a destination (an unmapped key "template"
\* beside instanceType: the result has template, holding the new mapping).
C5_UnknownKeysNotStored ==
  \A l \in DOMAIN calls :
    Done(l) =>
      /\ DOMAIN Merged(l).f = DOMAIN calls[l].before.f \cup TopDestinations(OverrideFor(l))
      /\ \A k \in DOMAIN OverrideFor(l) \ DOMAIN Destination :
           /\ ValueAt(Merged(l), <<k>>) # OverrideFor(l)[k]
           /\ (k \notin DOMAIN calls[l].before.f /\ k \notin TopDestinations(OverrideFor(l)))
                => k \notin DOMAIN Merged(l).f

\* C5 witness: a call whose override has the unmapped key customKey next to a
\* mapped one has returned a record without customKey.
C5_Witness ==
  /\ Done("A")
  /\ DOMAIN ovA = {"customKey", "instanceType"}
  /\ "customKey" \notin DOMAIN Merged("A").f
  /\ "template" \in DOMAIN Merged("A").f

\* C6: for overrides A and B with disjoint keys, merging A then B, merging B
\* then A and merging the single override A u B give the same record, also
\* onto a baseline whose template or template.rootVolume is missing or is not
\* a mapping.
C6_OrderIndependent ==
  (Done("AB") /\ Done("BA") /\ Done("AuB")) =>
    /\ Merged("AB") = Merged("BA")
    /\ Merged("AB") = Merged("AuB")

\* C6 witness: the three merges are done for two non-empty overrides that
\* both write below template, onto a baseline that had no template mapping.
C6_Witness ==
  /\ Done("AB") /\ Done("BA") /\ Done("AuB")
  /\ DOMAIN ovA = {"instanceType"}
  /\ DOMAIN ovB = {"rootVolumeSize"}
  /\ ValueAt(calls["AuB"].before, <<"template">>).t # "dict"
  /\ ValueAt(Merged("BA"), <<"template", "instanceType">>) = VStr("r5.xlarge")
  /\ ValueAt(Merged("BA"), <<"template", "rootVolume", "size">>) = VInt(500)

\* C7: merge is idempotent: merge(merge(b, o), o) equals merge(b, o).
C7_Idempotent ==
  (Done("A") /\ Done("AA")) => Merged("AA") = Merged("A")

\* C7 witness: an override with a top-level list and a nested key has been
\* merged once and then once more onto the result.
C7_Witness ==
  /\ Done("A") /\ Done("AA")
  /\ DOMAIN ovA = {"recipeNames", "rootVolumeSize"}
  /\ ValueAt(Merged("AA"), <<"recipeNames">>) = VList(<<VStr("recipe1")>>)

\* The nested destinations of the mapped keys of an override
NestedPaths(o) ==
  {Destination[k] : k \in {x \in DOMAIN o \cap DOMAIN Destination : Len(Destination[x]) >= 2}}

\* The intermediates of the nested destinations: their proper prefixes
Intermediates(o) ==
  {SubSeq(path, 1, n) : path \in NestedPaths(o), n \in 1..2} \ NestedPaths(o)

\* The entries the nested destinations of an override go through or end at
\* in the mapping at an intermediate
WrittenAt(o, prefix) ==
  {path[Len(prefix) + 1] :
     path \in {x \in NestedPaths(o) : Len(x) > Len(prefix) /\ SubSeq(x, 1, Len(prefix)) = prefix}}

\* C25: when an override key maps to a nested destination and an intermediate
\* of the path is missing from the baseline or holds a value that is no
\* mapping, the merged record has a new mapping there that holds what the
\* override sets below it and nothing else; when the intermediate is a
\* mapping, its other entries (template.aws, template.cloudPlatform) are kept.
C25_NestedDestinations ==
  \A l \in DOMAIN calls :
    NestedPaths(OverrideFor(l)) # {} =>
      /\ Done(l)
      /\ \A prefix \in Intermediates(OverrideFor(l)) :
           LET old     == ValueAt(calls[l].before, prefix)
               new     == ValueAt(calls[l].merged, prefix)
               written == WrittenAt(OverrideFor(l), prefix)
           IN /\ new.t = "dict"
              /\ old.t # "dict" => DOMAIN new.f = written
              /\ old.t = "dict" =>
                   /\ DOMAIN new.f = DOMAIN old.f \cup written
                   /\ \A k \in DOMAIN old.f \ written : new.f[k] = old.f[k]
      /\ \A k \in DOMAIN OverrideFor(l) \cap DOMAIN Destination :
           Len(Destination[k]) >= 2 =>
             ValueAt(calls[l].merged, Destination[k]) = OverrideFor(l)[k]

\* C25 witness: rootVolumeSize has been merged onto a baseline whose template
\* is a mapping without rootVolume: the merged template has a new rootVolume
\* with the size only, and still has aws and cloudPlatform.
C25_Witness ==
  /\ Done("A")
  /\ DOMAIN ovA = {"rootVolumeSize"}
  /\ ValueAt(calls["A"].before, <<"template">>).t = "dict"
  /\ ValueAt(calls["A"].before, <<"template", "rootVolume">>) = VNone
  /\ ValueAt(calls["A"].merged, <<"template", "rootVolume">>) = VDict([size |-> VInt(500)])
  /\ ValueAt(calls["A"].merged, <<"template", "cloudPlatform">>) = VStr("AWS")
  /\ ValueAt(calls["A"].merged, <<"template", "aws">>)
       = ValueAt(calls["A"].before, <<"template", "aws">>)

\* C26: merge_instance_group_override changes only the destinations of the
\* mapped override keys: every top-level field of the baseline that is not
\* the destination of a key of the override (minimumNodeCount,
\* scalabilityOption, subnetIds) has the same value in the merged record, and
\* an empty override yields a record equal to the baseline.
C26_OnlyDestinationsChange ==
  \A l \in DOMAIN calls :
    Done(l) =>
      /\ \A k \in DOMAIN calls[l].before.f \ TopDestinations(OverrideFor(l)) :
           /\ k \in DOMAIN calls[l].merged.f
           /\ calls[l].merged.f[k] = calls[l].before.f[k]
      /\ DOMAIN OverrideFor(l) = {} => calls[l].merged = calls[l].before

\* C26 witness: nodeCount has been merged onto the full baseline, and the
\* merged record has the baseline's minimumNodeCount, subnetIds and template.
C26_Witness ==
  /\ Done("A")
  /\ DOMAIN ovA = {"nodeCount"}
  /\ calls["A"].merged.f["nodeCount"] = VInt(5)
  /\ calls["A"].before.f["nodeCount"] = VInt(3)
  /\ calls["A"].merged.f["minimumNodeCount"] = VInt(0)
  /\ calls["A"].merged.f["subnetIds"] = VList(<<VStr("subnet-1")>>)
  /\ ValueAt(calls["A"].merged, <<"template", "instanceType">>) = VStr("m6i.4xlarge")

-----------------------------------------------------------------------------
(* Claims about parse_instance_groups_argument (checked under SpecGroups). *)
(* The expected results are stated from the pieces the input was put       *)
(* together from: fields at the odd places, separators at the even ones.   *)

\* The groups of the input: the runs of fields between two " " separators
RECURSIVE FieldRuns(_, _, _)
FieldRuns(q, cur, acc) ==
  IF Len(q) = 0 THEN Append(acc, cur)
  ELSE IF Len(q) = 1 THEN Append(acc, Append(cur, q[1]))
  ELSE IF q[2] = " " THEN FieldRuns(Tail(Tail(q)), << >>, Append(acc, Append(cur, q[1])))
  ELSE FieldRuns(Tail(Tail(q)), Append(cur, q[1]), acc)

\* The runs that are not blank, which are the groups the parser reports
IsBlankRun(run) == \A i \in 1..Len(run) : Len(run) = 1 /\ run[i] = ""
InputGroups == SelectSeq(FieldRuns(input_parts, << >>, << >>), LAMBDA r : ~IsBlankRun(r))

Returned == groups.t = "list"

\* The last field of a run that sets key, "" when none does
LastFieldOf(run, key) ==
  LET hits == {i \in 1..Len(run) : StartsWith(run[i], key \o "=")} IN
  IF hits = {} THEN "" ELSE run[CHOOSE i \in hits : \A j \in hits : j <= i]

\* C3: a group that contains recipeNames=r1,...,rn yields a record whose
\* recipeNames is the list of all n names in input order; recipeNames=
\* recipe1,recipe2 yields ["recipe1", "recipe2"], with or without a volume
\* field in the group.
C3_AllRecipeNames ==
  Returned =>
    LET runs == InputGroups IN
    /\ Len(groups.q) = Len(runs)
    /\ \A i \in 1..Len(runs) :
         runs[i][Len(runs[i])] = "recipeNames=recipe1,recipe2" =>
           /\ "recipeNames" \in DOMAIN groups.q[i].f
           /\ groups.q[i].f["recipeNames"] = VList(<<VStr("recipe1"), VStr("recipe2")>>)

\* C4: in every record returned, attachedVolumeConfiguration, when present, is
\* a list, also when the group names the field more than once or its value is
\* not bracketed.
C4_VolumeFieldIsList ==
  Returned =>
    \A i \in 1..Len(groups.q) :
      "attachedVolumeConfiguration" \in DOMAIN groups.q[i].f =>
        groups.q[i].f["attachedVolumeConfiguration"].t = "list"

\* What each field of the input sets an integer key to: the integer when the
\* trimmed text is an integer literal, the trimmed text otherwise
IntegerField ==
  ("nodeCount=3" :> VInt(3)) @@ ("nodeCount=3x" :> VStr("3x"))
  @@ ("nodeCount=\t7" :> VInt(7)) @@ ("rootVolumeSize=200" :> VInt(200))
  @@ ("rootVolumeSize=" :> VStr(""))

\* The fields of a run that set key
FieldsOf(run, key) == {run[i] : i \in {j \in 1..Len(run) : StartsWith(run[j], key \o "=")}}

\* The number of fields of a run that name the volume field
VolumeFields(run) == Cardinality({i \in 1..Len(run) : StartsWith(run[i], AVC)})

\* C10: nodeCount and rootVolumeSize are integers exactly when the trimmed
\* text parses as an integer and stay the trimmed text otherwise, in groups
\* with and in groups without an attachedVolumeConfiguration field: a value
\* the record holds is the coercion of a field of the group, and it is that
\* of the group's last field for the key when the group names the volume
\* field at most once.
C10_IntegerCoercion ==
  Returned =>
    LET runs == InputGroups IN
    /\ Len(groups.q) = Len(runs)
    /\ \A i \in 1..Len(runs) : \A key \in {"nodeCount", "rootVolumeSize"} :
         LET field == LastFieldOf(runs[i], key) IN
         /\ key \in DOMAIN groups.q[i].f =>
              \E f \in FieldsOf(runs[i], key) : groups.q[i].f[key] = IntegerField[f]
         /\ (field # "" /\ VolumeFields(runs[i]) <= 1) =>
              /\ key \in DOMAIN groups.q[i].f
              /\ groups.q[i].f[key] = IntegerField[field]

\* C10 witness: a group with the volume field and a non-integer nodeCount, and
\* a group without the volume field and an integer to trim, have been parsed.
C10_Witness ==
  /\ Returned
  /\ input_parts \in
       { <<"attachedVolumeConfiguration=[{volumeSize=256,volumeCount=2,volumeType=gp3}]",
           ",", "nodeCount=3x">>,
         <<"rootVolumeSize=200", ",", "nodeCount=\t7">> }
  /\ groups.q[1].f["nodeCount"] \in {VStr("3x"), VInt(7)}

\* C13: parse_instance_groups_argument returns exactly one record per
\* non-blank piece of the input between single spaces, in the input's order:
\* the i-th record has the keys the i-th piece names.  A group without
\* instanceGroupName, even one without any key=value pair, still has its
\* record at its place.
C13_OneRecordPerGroup ==
  Returned =>
    LET runs == InputGroups IN
    /\ Len(groups.q) = Len(runs)
    /\ \A i \in 1..Len(runs) :
         /\ groups.q[i].t = "dict"
         /\ VolumeFields(runs[i]) <= 1 =>
              \A key \in {"nodeCount", "rootVolumeSize", "instanceGroupName", "recipeNames"} :
                key \in DOMAIN groups.q[i].f <=> FieldsOf(runs[i], key) # {}
         /\ (\A j \in 1..Len(runs[i]) : runs[i][j] \in {"", "novalue"}) =>
              groups.q[i] = VDict(EmptyDict)

\* C13 witness: a group without any pair followed by a named group has been
\* parsed to an empty record followed by the named one.
C13_Witness ==
  /\ Returned
  /\ input_parts = <<"novalue", " ", "instanceGroupName=core">>
  /\ groups.q = <<VDict(EmptyDict), VDict([instanceGroupName |-> VStr("core")])>>

-----------------------------------------------------------------------------
(* Claims about _parse_cli_command (checked under SpecCli)                 *)

Parsed == parsed.t = "dict"
OverrideMap == parsed.f["instance_groups_override"].f

\* The records the Group-Definition Parser returns for the region of the
\* command string, none when the command has no region
RegionGroups ==
  LET region == InstanceGroupsRegion(arg) IN
  IF region.ok THEN parse_instance_groups_argument(region.g).q ELSE << >>

RegionGroupStrings ==
  LET region == InstanceGroupsRegion(arg) IN
  IF region.ok THEN SelectSeq(Split(region.g, " "), LAMBDA g : Strip(g) # "") ELSE << >>

\* The name a group is stored under: the raw text of its last instanceGroupName
\* pair, "unknown" without one
RawName(group_str) ==
  LET pairs == Split(group_str, ",")
      hits  == {i \in 1..Len(pairs) : Split1(pairs[i], "=")[1] = "instanceGroupName"
                                       /\ Len(Split1(pairs[i], "=")) = 2}
  IN IF hits = {} THEN "unknown"
     ELSE Split1(pairs[CHOOSE i \in hits : \A j \in hits : j <= i], "=")[2]

\* What the Group-Definition Parser makes of the raw text of a value
Coerced(key, raw) ==
  IF key \in {"nodeCount", "rootVolumeSize"}
    THEN (IF PyInt(raw).ok THEN VInt(PyInt(raw).v) ELSE VStr(Strip(raw)))
  ELSE IF key = "recipeNames" THEN VList(TrimmedNonEmpty(Split(Strip(raw), ",")))
  ELSE VStr(Strip(raw))

-----------------------------------------------------------------------------
(* A claim about every operation (checked under Spec)                      *)

\* C8: the parser and the merger are total: _parse_cli_command,
\* parse_instance_groups_argument (its inner parse_attached_volumes included)
\* and merge_instance_group_override return a value and never raise, for
\* pairs without '=', non-numeric integer keys, unbalanced brackets, and for
\* baselines whose template is missing or is not a mapping.
C8_NeverRaises ==
  /\ groups.t \in {"notcalled", "list"}
  /\ parsed.t \in {"notcalled", "dict"}
  /\ \A l \in DOMAIN calls : calls[l].res.t = "ref"

\* C8 witness: a group with an unbalanced volume field, a pair without '=' and
\* a non-numeric nodeCount has been parsed to a record.
C8_Witness ==
  /\ Returned
  /\ input_parts = <<"attachedVolumeConfiguration=[{volumeSize=8}", ",", "nodeCount=3x">>
  /\ Len(groups.q) = 1
  /\ groups.q[1].f["nodeCount"] = VStr("3x")

-----------------------------------------------------------------------------
(* Claims about parse_attached_volumes (checked under SpecVolumes)         *)

VolumesReturned == volume_list.t = "list"

\* The records of the input: the pieces between the brackets and the commas
InputRecords ==
  SelectSeq(SubSeq(input_parts, 2, Len(input_parts) - 1), LAMBDA piece : piece # ",")

\* The input is a bracketed list of one record or more
WellFormedList ==
  /\ mode = "volumes"
  /\ input_parts[1] = "[" /\ input_parts[Len(input_parts)] = "]"
  /\ Len(InputRecords) >= 1

\* What each record of the input stands for: size and count integers when
\* their text is an integer, a record without mapped key for nothing
VolumeRecord ==
  ("{volumeSize=256,volumeCount=2,volumeType=gp3}" :>
      VDict([size |-> VInt(256), count |-> VInt(2), type |-> VStr("gp3")]))
  @@ ("{volumeSize=8}" :> VDict([size |-> VInt(8)]))
  @@ ("{volumeType=st1}" :> VDict([type |-> VStr("st1")]))
  @@ ("{volumeSize=big,volumeCount= 2 }" :> VDict([size |-> VStr("big"), count |-> VInt(2)]))
  @@ ("{volumeCount=2x,iops=3000}" :> VDict([count |-> VStr("2x")]))
  @@ ("{volumeSize=16,encrypted,volumeType=io1}" :>
        VDict([size |-> VInt(16), type |-> VStr("io1")]))
  @@ ("{iops=3000}" :> VNone)
  @@ ("{}" :> VNone)

\* C11: for a well-formed bracketed list whose every record has one of
\* volumeSize, volumeCount, volumeType, parse_attached_volumes returns one
\* record per input record, in input order, with the keys mapped to size,
\* count and type; size and count are integers when their text parses as an
\* integer and stay strings otherwise.
C11_OneRecordPerVolume ==
  (VolumesReturned /\ WellFormedList) =>
    LET records == InputRecords IN
    (\A i \in 1..Len(records) : VolumeRecord[records[i]] # VNone) =>
      volume_list.q = [i \in 1..Len(records) |-> VolumeRecord[records[i]]]

\* C11 witness: a list of two records, the second with a size that is not an
\* integer, has been parsed to two records in that order.
C11_Witness ==
  /\ VolumesReturned
  /\ arg = "[{volumeSize=256,volumeCount=2,volumeType=gp3},{volumeSize=big,volumeCount= 2 }]"
  /\ Len(volume_list.q) = 2
  /\ volume_list.q[2].f["size"] = VStr("big")

\* The records of the input that have a mapped key, as the records they
\* stand for
RECURSIVE MappedRecords(_)
MappedRecords(records) ==
  IF Len(records) = 0 THEN << >>
  ELSE IF VolumeRecord[Head(records)] = VNone THEN MappedRecords(Tail(records))
  ELSE <<VolumeRecord[Head(records)]>> \o MappedRecords(Tail(records))

\* C24: in parse_attached_volumes keys other than volumeSize, volumeCount and
\* volumeType are dropped, a pair without '=' is skipped without aborting its
\* record, and a record that yields none of the three mapped keys is omitted:
\* the result never holds an empty record, every record's keys are a non-empty
\* subset of {size, count, type}, and the result of a bracketed list is the
\* records that have a mapped key, in order, with their mapped keys only.
C24_OnlyMappedKeys ==
  (mode = "volumes" /\ VolumesReturned) =>
    /\ \A i \in 1..Len(volume_list.q) :
         /\ DOMAIN volume_list.q[i].f # {}
         /\ DOMAIN volume_list.q[i].f \subseteq {"size", "count", "type"}
    /\ WellFormedList => volume_list.q = MappedRecords(InputRecords)

\* C24 witness: a record with an unmapped key only and a record with a pair
\* without '=' have been parsed to the one record of the second, with its
\* size and type.
C24_Witness ==
  /\ VolumesReturned
  /\ arg = "[{iops=3000},{volumeSize=16,encrypted,volumeType=io1}]"
  /\ volume_list = VList(<<VDict([size |-> VInt(16), type |-> VStr("io1")])>>)

\* C12: parse_attached_volumes returns the empty list for the empty string,
\* for every string that does not start with '[' or does not end with ']',
\* and for "[]".
C12_EmptyForUnbracketed ==
  (mode = "volumes" /\ volume_list # NotCalled) =>
    ((arg = "" \/ Ch(arg, 1) # "[" \/ Ch(arg, Len(arg)) # "]" \/ arg = "[]")
       => volume_list = VList(<< >>))

\* C12 witness: a list that has its opening but not its closing bracket has
\* been answered with the empty list.
C12_Witness ==
  /\ arg = "[{volumeSize=8}"
  /\ volume_list = VList(<< >>)

-----------------------------------------------------------------------------
(* Claims about generate_request_template (checked under SpecTemplate)     *)

Ran(l) == l \in DOMAIN templates

\* C14 as claimed: the override records are applied in the order given and
\* the order does not change the result: every permutation of the list yields
\* the same instanceGroups list.
C14_AsClaimed ==
  (Ran("given") /\ Ran("permuted")) =>
    templates["permuted"].instanceGroups = templates["given"].instanceGroups

\* Two override records name the same group and give a key different values
Conflicting(o1, o2) ==
  /\ "instanceGroupName" \in DOMAIN o1.f /\ "instanceGroupName" \in DOMAIN o2.f
  /\ o1.f["instanceGroupName"] = o2.f["instanceGroupName"]
  /\ \E k \in DOMAIN o1.f \cap DOMAIN o2.f : o1.f[k] # o2.f[k]

ConflictFree(overrides) ==
  \A i, j \in 1..Len(overrides) : ~Conflicting(overrides[i], overrides[j])

\* The nodeCount the last record of the list that names the group and has
\* nodeCount gives, VNone when no record does
LastNodeCount(overrides, name) ==
  LET hits == {i \in 1..Len(overrides) :
                 /\ "instanceGroupName" \in DOMAIN overrides[i].f
                 /\ overrides[i].f["instanceGroupName"] = name
                 /\ "nodeCount" \in DOMAIN overrides[i].f}
  IN IF hits = {} THEN VNone
     ELSE overrides[CHOOSE i \in hits : \A j \in hits : j <= i].f["nodeCount"]

\* C14 as amended: the override records are applied in the order given: when
\* records for one group set nodeCount, the first group of that name ends with
\* the value of the last of them.  Every permutation of the list yields the
\* same instanceGroups list when no two records of the list name the same
\* group and give a key different values.
C14_OrderMattersOnlyOnConflict ==
  \A l \in {"given", "permuted"} :
    Ran(l) =>
      LET run == templates[l] IN
      /\ run.instanceGroups.t = "list"
      /\ \A i \in 1..Len(run.instanceGroups.q) :
           LET group == run.instanceGroups.q[i].f
               first == \A j \in 1..(i - 1) : run.instanceGroups.q[j].f["name"] # group["name"]
           IN (first /\ LastNodeCount(run.overrides, group["name"]) # VNone) =>
                group["nodeCount"] = LastNodeCount(run.overrides, group["name"])
      /\ (Ran("given") /\ ConflictFree(given_overrides)) =>
           run.instanceGroups = templates["given"].instanceGroups

\* C14 witness: two records that set different keys of core have been applied
\* in both orders.
C14_Witness ==
  /\ Ran("given") /\ Ran("permuted")
  /\ Len(given_overrides) = 2
  /\ ConflictFree(given_overrides)
  /\ templates["permuted"].overrides # given_overrides
  /\ \A i \in 1..2 : /\ "instanceGroupName" \in DOMAIN given_overrides[i].f
                      /\ given_overrides[i].f["instanceGroupName"] = VStr("core")
  /\ \E i \in 1..Len(templates["permuted"].instanceGroups.q) :
       LET group == templates["permuted"].instanceGroups.q[i].f IN
       /\ group["nodeCount"] = VInt(5)
       /\ group["template"].f["rootVolume"].f["size"] = VInt(500)

\* C15: an override record without instanceGroupName, or whose
\* instanceGroupName is the name of no instance group of the cluster, changes
\* no instance group and raises no error: the instanceGroups list is the one
\* of the run without that record (another record stays in the list).
C15_UnmatchedOverrideIgnored ==
  (Ran("given") /\ Ran("dropped")) =>
    /\ templates["given"].instanceGroups.t = "list"
    /\ templates["dropped"].instanceGroups = templates["given"].instanceGroups

\* C15 witness: a list with a record for core and a record for a group the
\* cluster does not have has been run with and without the second record, and
\* core has the first record's nodeCount.
C15_Witness ==
  /\ Ran("given") /\ Ran("dropped")
  /\ Len(given_overrides) = 2
  /\ Len(templates["dropped"].overrides) = 1
  /\ given_overrides[2].f = [nodeCount |-> VInt(1), instanceGroupName |-> VStr("nosuch")]
  /\ \E i \in 1..Len(templates["given"].instanceGroups.q) :
       templates["given"].instanceGroups.q[i].f["nodeCount"] = VInt(5)

\* C16: the name-indexed group map of the command file classifies a group and
\* is never merged: two runs that differ only in that map return instance
\* groups that are equal in every field other than type.
C16_CliMapOnlyClassifies ==
  (Ran("given") /\ Ran("remapped")) =>
    LET one == templates["given"].instanceGroups
        two == templates["remapped"].instanceGroups
    IN /\ one.t = "list" /\ two.t = "list"
       /\ Len(one.q) = Len(two.q)
       /\ \A i \in 1..Len(one.q) : Without(one.q[i].f, "type") = Without(two.q[i].f, "type")

\* C16 witness: without override records, two runs whose maps type core
\* differently have returned core with different types.
C16_Witness ==
  /\ Ran("given") /\ Ran("remapped")
  /\ given_overrides = << >>
  /\ templates["remapped"].cli # self_cli_command_data
  /\ \E i \in 1..Len(templates["given"].instanceGroups.q) :
       /\ templates["given"].instanceGroups.q[i].f["name"] = VStr("core")
       /\ templates["given"].instanceGroups.q[i].f["type"] = VStr("GATEWAY")
       /\ templates["remapped"].instanceGroups.q[i].f["type"] = VStr("CORE")

\* The places of the override records that name the group `name`
RecordsFor(overrides, name) ==
  {r \in 1..Len(overrides) :
     /\ "instanceGroupName" \in DOMAIN overrides[r].f
     /\ overrides[r].f["instanceGroupName"] = name}

\* What the last record for `name` that has key k gives it, VNone when none has
LastValueFor(overrides, name, k) ==
  LET hits == {r \in RecordsFor(overrides, name) : k \in DOMAIN overrides[r].f} IN
  IF hits = {} THEN VNone
  ELSE overrides[CHOOSE r \in hits : \A x \in hits : x <= r].f[k]

\* C27: an override record whose instanceGroupName matches replaces only the
\* first instance group of that name, in cluster order, by its merge with the
\* override (the override's values are at their destinations, the other
\* top-level fields are as before); every other instance group is unchanged;
\* and after any list of overrides the instanceGroups list has the length,
\* the order and the group names it had before the overrides.
C27_OnlyFirstMatchReplaced ==
  \A l \in DOMAIN templates :
    LET run    == templates[l]
        before == run.extracted
        after  == run.instanceGroups.q
    IN /\ run.instanceGroups.t = "list"
       /\ Len(after) = Len(before)
       /\ \A i \in 1..Len(before) :
            LET name    == before[i].f["name"]
                first   == \A j \in 1..(i - 1) : before[j].f["name"] # name
                records == RecordsFor(run.overrides, name)
                written == UNION {TopDestinations(run.overrides[r].f) : r \in records}
            IN /\ after[i].f["name"] = name
               /\ (~first \/ records = {}) => after[i] = before[i]
               /\ (first /\ records # {}) =>
                    /\ \A k \in DOMAIN Destination :
                         LastValueFor(run.overrides, name, k) # VNone =>
                           ValueAt(after[i], Destination[k]) = LastValueFor(run.overrides, name, k)
                    /\ \A k \in DOMAIN before[i].f \ written : after[i].f[k] = before[i].f[k]

\* C27 witness: in a cluster with the groups gateway, core and core again, one
\* override record for core has changed the first core only.
C27_Witness ==
  /\ Ran("given")
  /\ Len(given_overrides) = 1
  /\ LET run == templates["given"] IN
     /\ Len(run.extracted) = 3
     /\ RecordsFor(run.overrides, VStr("core")) = {1}
     /\ run.extracted[2].f["name"] = VStr("core")
     /\ run.extracted[3].f["name"] = VStr("core")
     /\ run.instanceGroups.q[2] # run.extracted[2]
     /\ run.instanceGroups.q[3] = run.extracted[3]
     /\ run.instanceGroups.q[1] = run.extracted[1]

\* The type the description gives each described group: GATEWAY when its
\* first instance is the primary gateway, CORE otherwise, also without instances
DescribedType ==
  (DescribedCore :> VStr("CORE")) @@ (DescribedGateway :> VStr("GATEWAY"))
  @@ (DescribedCoreAgain :> VStr("CORE"))

\* The non-empty instanceGroupType the group map of the command-file data has
\* for a name, VNone when it has none
TypeInMap(cli, name) ==
  IF cli = VNone THEN VNone
  ELSE LET map == cli.f["instance_groups_override"].f IN
       IF /\ name \in DOMAIN map
          /\ "instanceGroupType" \in DOMAIN map[name].f
          /\ map[name].f["instanceGroupType"] # VStr("")
         THEN map[name].f["instanceGroupType"] ELSE VNone

\* C28: the baseline type of an instance group is the instanceGroupType the
\* command-file group map records for the group's name, when the map has a
\* non-empty one for that name and no override list was passed; otherwise
\* GATEWAY when the group's first instance has instanceType GATEWAY_PRIMARY
\* and CORE in every other case.  With a non-empty override list the
\* command-file type is ignored for every group, named by an override or not.
C28_BaselineType ==
  \A l \in DOMAIN templates :
    LET run == templates[l]
        described ==
          Get(Get(given_cluster_data, "cluster", VDict(EmptyDict)), "instanceGroups",
              VList(<< >>)).q
    IN /\ Len(run.extracted) = Len(described)
       /\ \A i \in 1..Len(described) :
            LET recorded == TypeInMap(run.cli, described[i].f["name"].s) IN
            run.extracted[i].f["type"] =
              IF Len(run.overrides) = 0 /\ recorded # VNone THEN recorded
              ELSE DescribedType[described[i]]

\* C28 witness: with a command file that types core as GATEWAY and an
\* override list whose one record names no group of the cluster, core has
\* been built with the type CORE.
C28_Witness ==
  /\ Ran("given")
  /\ Len(given_overrides) = 1
  /\ NamesNoGroup(given_overrides[1])
  /\ TypeInMap(self_cli_command_data, "core") = VStr("GATEWAY")
  /\ Len(templates["given"].extracted) = 1
  /\ templates["given"].extracted[1].f["name"] = VStr("core")
  /\ templates["given"].extracted[1].f["type"] = VStr("CORE")

-----------------------------------------------------------------------------
(* Claims about the flags _parse_cli_command reads (checked under          *)
(* SpecFlags).  The expected values are stated from the flags the command  *)
(* string was put together from.                                           *)

FlagsParsed == mode = "flags" /\ parsed.t = "dict"

\* The flags of the command string, in their order
InputFlags == [i \in 1..((Len(input_parts) - 1) \div 2) |-> input_parts[2 * i + 1]]

HasFlag(flag) == \E i \in 1..Len(InputFlags) : InputFlags[i] = flag

\* C17: for each toggle (multi-AZ and load balancer), a command string with
\* only the negative marker yields false, one with only the positive marker
\* yields true, and one with neither yields false.
C17_Toggles ==
  FlagsParsed =>
    \A toggle \in { [field |-> "multi_az", positive |-> "--multi-az",
                     negative |-> "--no-multi-az"],
                    [field |-> "enable_load_balancer", positive |-> "--enable-load-balancer",
                     negative |-> "--no-enable-load-balancer"] } :
      /\ (HasFlag(toggle.negative) /\ ~HasFlag(toggle.positive)) =>
           parsed.f[toggle.field] = VBool(FALSE)
      /\ (HasFlag(toggle.positive) /\ ~HasFlag(toggle.negative)) =>
           parsed.f[toggle.field] = VBool(TRUE)
      /\ (~HasFlag(toggle.positive) /\ ~HasFlag(toggle.negative)) =>
           parsed.f[toggle.field] = VBool(FALSE)

\* C17 witness: a command with --no-multi-az and --enable-load-balancer has
\* been parsed to multi_az false and enable_load_balancer true.
C17_Witness ==
  /\ FlagsParsed
  /\ InputFlags = <<"--no-multi-az", "--enable-load-balancer">>
  /\ parsed.f["multi_az"] = VBool(FALSE)
  /\ parsed.f["enable_load_balancer"] = VBool(TRUE)

\* C23: for each toggle, a command string that contains both the positive
\* and the negative marker yields false, whichever marker comes first: the
\* negative marker is tested first and wins.
C23_NegativeWins ==
  FlagsParsed =>
    \A toggle \in { [field |-> "multi_az", positive |-> "--multi-az",
                     negative |-> "--no-multi-az"],
                    [field |-> "enable_load_balancer", positive |-> "--enable-load-balancer",
                     negative |-> "--no-enable-load-balancer"] } :
      (HasFlag(toggle.positive) /\ HasFlag(toggle.negative)) =>
        parsed.f[toggle.field] = VBool(FALSE)

\* C23 witness: a command with --multi-az and then --no-multi-az has been
\* parsed to multi_az false.
C23_Witness ==
  /\ FlagsParsed
  /\ InputFlags = <<"--multi-az", "--no-multi-az">>
  /\ parsed.f["multi_az"] = VBool(FALSE)

\* C18: for every command string without the --tags marker the tags mapping
\* is empty, whatever key="..",value=".." text the string holds.
C18_NoTagsWithoutMarker ==
  (FlagsParsed /\ \A i \in 0..Len(arg) : ~StartsAt(arg, "--tags", i)) =>
    parsed.f["tags"] = VDict(EmptyDict)

\* C18 witness: a command that holds a key/value pair and no --tags marker
\* has been parsed to no tags.
C18_Witness ==
  /\ FlagsParsed
  /\ InputFlags = <<"--multi-az", "key=\"owner\",value=\"ops\"">>
  /\ parsed.f["tags"] = VDict(EmptyDict)

\* The pair each tags flag of the inputs holds, in plain or doubled quoting
TagOf ==
  ("--tags key=\"team\",value=\"data\"" :> [k |-> "team", v |-> "data"])
  @@ ("--tags key=\"\"team\"\",value=\"\"data\"\"" :> [k |-> "team", v |-> "data"])
  @@ ("--tags key=\"\"env\"\",value=\"\"a--b\"\"" :> [k |-> "env", v |-> "a--b"])

HasTwoHyphens(text) == \E i \in 0..Len(text) : StartsAt(text, "--", i)

\* The place of the first tags flag when its tag region holds its pair: the
\* region runs from the marker to the next "--" (lines 159-162), so it holds
\* the pair when the pair has no "--" in it, and holds nothing else when the
\* flag after it, if any, starts with "--"; 0 when no region holds its pair
RegionWithPair ==
  LET hits == {i \in 1..Len(InputFlags) : InputFlags[i] \in DOMAIN TagOf} IN
  IF hits = {} THEN 0
  ELSE LET i == Least(hits)
           tag == TagOf[InputFlags[i]]
       IN IF \/ i < Len(InputFlags) /\ ~StartsAt(InputFlags[i + 1], "--", 0)
             \/ HasTwoHyphens(tag.k) \/ HasTwoHyphens(tag.v)
            THEN 0 ELSE i

\* C19: for every non-empty key k and value v without a double-quote
\* character, a tag region holding key="k",value="v" and a tag region holding
\* the doubled-quote form key=""k"",value=""v"" are parsed to the same tags
\* mapping {k: v}.
C19_QuotingForms ==
  (FlagsParsed /\ RegionWithPair > 0) =>
    LET tag == TagOf[InputFlags[RegionWithPair]] IN
    parsed.f["tags"] = VDict((tag.k :> VStr(tag.v)))

\* C19 witness: the doubled-quote form of the pair team/data has been parsed
\* to {team: data}.
C19_Witness ==
  /\ FlagsParsed
  /\ InputFlags = <<"--tags key=\"\"team\"\",value=\"\"data\"\"", "--multi-az">>
  /\ parsed.f["tags"] = VDict([team |-> VStr("data")])

\* The pair of a flag that is a key/value pair without a marker
PairOf ==
  ("key=\"owner\",value=\"ops\"" :> [k |-> "owner", v |-> "ops"])
  @@ ("key=\"team\",value=\"core\"" :> [k |-> "team", v |-> "core"])

\* The pairs of the flags from place i on, up to the first flag that starts
\* with "--", folded into tags: a later pair of a key replaces an earlier one
RECURSIVE PairsUpToNextFlag(_, _)
PairsUpToNextFlag(i, tags) ==
  IF i > Len(InputFlags) \/ InputFlags[i] \notin DOMAIN PairOf THEN tags
  ELSE PairsUpToNextFlag(i + 1, SetItem(tags, PairOf[InputFlags[i]].k,
                                        VStr(PairOf[InputFlags[i]].v)))

\* The pairs of the tag region: those of the first --tags flag and of the
\* flags after it, up to the first "--", which may lie in the flag's own value
RegionTags ==
  LET hits == {i \in 1..Len(InputFlags) : InputFlags[i] \in DOMAIN TagOf} IN
  IF hits = {} THEN EmptyDict
  ELSE LET i == Least(hits)
           tag == TagOf[InputFlags[i]]
       IN IF HasTwoHyphens(tag.k) \/ HasTwoHyphens(tag.v) THEN EmptyDict
          ELSE PairsUpToNextFlag(i + 1, (tag.k :> VStr(tag.v)))

\* C29: tag extraction uses only the region between the first --tags marker
\* and the next "--" (or the end of the string): every key/value pair inside
\* the region is in the tags mapping, a repeated key with its last value, and
\* no pair before the marker or after the region's end is in it.
C29_TagRegion ==
  FlagsParsed => parsed.f["tags"] = VDict(RegionTags)

\* C29 witness: a --tags flag with the pair team/data and, right after it, a
\* second pair for team have been parsed: team has its last value.
C29_Witness ==
  /\ FlagsParsed
  /\ Len(InputFlags) >= 2
  /\ InputFlags[1] = "--tags key=\"team\",value=\"data\""
  /\ InputFlags[2] = "key=\"team\",value=\"core\""
  /\ parsed.f["tags"] = VDict([team |-> VStr("core")])

\* The first whitespace-delimited token of a flag
FirstToken(flag) ==
  LET ends == {i \in 1..Len(flag) : Ch(flag, i) \in Whitespace} IN
  IF ends = {} THEN flag ELSE SubSeq(flag, 1, Least(ends) - 1)

\* The token after the first --subnet-id that whitespace and a token follow,
\* VNone (the default of line 147) when the command has no such flag
SubnetToken ==
  LET hits == {i \in 1..Len(InputFlags) :
                 \/ InputFlags[i] = "--subnet-id subnet-1"
                 \/ InputFlags[i] = "--subnet-id" /\ i < Len(InputFlags)}
  IN IF hits = {} THEN VNone
     ELSE LET i == Least(hits) IN
          IF InputFlags[i] = "--subnet-id" THEN VStr(FirstToken(InputFlags[i + 1]))
          ELSE VStr("subnet-1")

\* C20: for --subnet-id and --datahub-database the field is the
\* non-whitespace token after the first occurrence of the flag and whitespace;
\* when the flag is absent the field keeps its default (subnet_id None,
\* datahub_database "NONE").
C20_SingleValueFlags ==
  FlagsParsed =>
    /\ parsed.f["subnet_id"] = SubnetToken
    /\ parsed.f["datahub_database"] =
         IF HasFlag("--datahub-database NON_HA") THEN VStr("NON_HA") ELSE VStr("NONE")

\* C20 witness: a command with --subnet-ids and then --subnet-id has been
\* parsed to the token of the flag that whitespace follows, and the database
\* mode has kept its default.
C20_Witness ==
  /\ FlagsParsed
  /\ InputFlags = <<"--subnet-ids subnet-3", "--subnet-id subnet-1">>
  /\ parsed.f["subnet_id"] = VStr("subnet-1")
  /\ parsed.f["datahub_database"] = VStr("NONE")

-----------------------------------------------------------------------------
(* Claims about the isolation of the volume field of a group (checked      *)
(* under SpecIsolation).  input_parts holds the text before the field, the *)
(* field's name with '=', its value, and the text after it.                *)

Isolated == mode = "isolate" /\ groups # NotCalled

\* The record of the one group of a string without the volume field; no
\* entry when the string has no group
OrdinaryPairs(group_str) ==
  LET plain == parse_instance_groups_argument(group_str) IN
  IF plain.t = "list" /\ Len(plain.q) = 1 THEN plain.q[1].f ELSE EmptyDict

VolumeLevelKeys == {"volumeSize", "volumeCount", "volumeType"}

\* C21: for a group with one attachedVolumeConfiguration field whose value is
\* a balanced bracketed list, the value is isolated by bracket-depth counting:
\* the record's attachedVolumeConfiguration is parse_attached_volumes of the
\* text from the opening '[' to its matching ']', no volumeSize, volumeCount or
\* volumeType key is at the group level, and every ordinary pair before and
\* after the field has the value it has in the group with the field removed.
C21_BracketIsolation ==
  (Isolated /\ input_parts[3] \in BalancedTexts /\ ~Contains(input_parts[4], AVC)) =>
    /\ groups.t = "list"
    /\ Len(groups.q) = 1
    /\ LET group == groups.q[1].f
           rest  == OrdinaryPairs(input_parts[1] \o input_parts[4])
       IN /\ "attachedVolumeConfiguration" \in DOMAIN group
          /\ group["attachedVolumeConfiguration"] = parse_attached_volumes(input_parts[3])
          /\ DOMAIN group \cap VolumeLevelKeys = {}
          /\ DOMAIN group \ {"attachedVolumeConfiguration"} = DOMAIN rest
          /\ \A k \in DOMAIN rest : group[k] = rest[k]

\* C21 witness: nodeCount=3 before and instanceGroupName=core after a list of
\* one volume record have been parsed to the three fields.
C21_Witness ==
  /\ Isolated
  /\ input_parts = <<"nodeCount=3,", AVC, "[{volumeSize=256,volumeCount=2,volumeType=gp3}]",
                     ",instanceGroupName=core">>
  /\ groups = VList(<<VDict(
       [attachedVolumeConfiguration |->
          VList(<<VDict([size |-> VInt(256), count |-> VInt(2), type |-> VStr("gp3")])>>),
        nodeCount |-> VInt(3), instanceGroupName |-> VStr("core")])>>)

\* C22: when the bracket depth of the value of the volume field never returns
\* to zero (the value is unbalanced or does not start with '['), the parser
\* returns with attachedVolumeConfiguration equal to the empty list, and all
\* the text after "attachedVolumeConfiguration=" is parsed as ordinary
\* comma-separated pairs of the group, like the text before it.
C22_UnbalancedFallback ==
  (Isolated /\ input_parts[3] \in UnbalancedTexts) =>
    /\ groups.t = "list"
    /\ Len(groups.q) = 1
    /\ LET group == groups.q[1].f
           rest  == PlainPairs(Split(input_parts[1] \o input_parts[3] \o input_parts[4], ","),
                               EmptyDict).f
       IN /\ "attachedVolumeConfiguration" \in DOMAIN group
          /\ group["attachedVolumeConfiguration"] = VList(<< >>)
          /\ DOMAIN group \ {"attachedVolumeConfiguration"}
               = DOMAIN rest \ {"attachedVolumeConfiguration"}
          /\ \A k \in DOMAIN rest \ {"attachedVolumeConfiguration"} : group[k] = rest[k]

-----------------------------------------------------------------------------
(* Claims about analyze_costs *)

\* the analysis has been returned
Analyzed == mode = "costs" /\ cost_analysis # NotCalled

\* the sum of a key over the entries of daily_costs, from the i-th entry on
RECURSIVE DailySum(_, _, _)
DailySum(daily_costs, key, i) ==
  IF i > Len(daily_costs) THEN 0
  ELSE daily_costs[i][key] + DailySum(daily_costs, key, i + 1)

\* C30: after analyze_costs, each of total_costs' five keys holds the sum of
\* that key over the entries of daily_costs, whatever the results were.
\* The code breaks this: a result that raises part-way is left out of
\* daily_costs after some of its amounts were added to total_costs.
C30_TotalsMatchDaily ==
  Analyzed =>
    \A key \in CostKeys :
      cost_analysis.total_costs[key] = DailySum(cost_analysis.daily_costs, key, 1)

====
